---- MODULE Spec2Model ----
(***************************************************************************)
(* Model of the Vexor file-indexing pipeline:                              *)
(*   - FileProcessingQueue (processing/queue_manager.py) with producer     *)
(*     threads and the worker loop of utils/worker_utils.py  (SpecQueue);  *)
(*   - FileProcessor (processing/file_processor.py) acting on the two      *)
(*     store collections and the file system                 (SpecProc);   *)
(*   - the batched Indexer with its on-disk batch backup                   *)
(*     (db/indexer.py)                                       (SpecBatch).  *)
(***************************************************************************)
EXTENDS Integers, Sequences, FiniteSets, TLC

(***************************************************************************)
(* Bounds of the model.                                                    *)
(***************************************************************************)
\* number of add_task calls each producer thread makes
TasksPerThread == 1
\* max_size of a queue created with a bound (0 means unlimited)
BoundedMaxSize == 1

Producers == {"p1", "p2"}
Workers == {"w1", "w2"}

(***************************************************************************)
(* processing/queue_manager.py : TaskType, FileTask                        *)
(***************************************************************************)
INDEX_FILE == "index_file"
DELETE_FILE == "delete_file"
UPDATE_FILE == "update_file"
MOVE_FILE == "move_file"
TaskType == {INDEX_FILE, DELETE_FILE, UPDATE_FILE, MOVE_FILE}

\* the task type of the n-th task of producer p: the producers between them
\* enqueue all four types, interleaved in every order
TaskTypeOf(p, n) ==
  IF p = "p1" THEN (IF n % 2 = 1 THEN INDEX_FILE ELSE MOVE_FILE)
              ELSE (IF n % 2 = 1 THEN DELETE_FILE ELSE UPDATE_FILE)

\* the task the n-th add_task call of producer p enqueues
FileTask(p, n) == [id |-> <<p, n>>, task_type |-> TaskTypeOf(p, n), file_path |-> <<"thread", p, "file", n>>]

TaskIds == Producers \X (1..TasksPerThread)
NoTask == [id |-> <<"none", 0>>, task_type |-> "none", file_path |-> <<>>]

(***************************************************************************)
(* processing/file_processor.py : ProcessingStatus                         *)
(***************************************************************************)
SUCCESS == "success"
SKIPPED == "skipped"
HIDDEN == "hidden"
LARGE == "large"
FAILURE == "failure"
ProcessingStatus == {SUCCESS, SKIPPED, HIDDEN, LARGE, FAILURE}

(***************************************************************************)
(* The file system: paths, files and the size limits of _check_file_size   *)
(***************************************************************************)
\* number of times the environment creates or rewrites a path in a run
MaxWrites == 2

\* a path is its parent directory and the tokens of its file name
PathA == [parent |-> "/d", name |-> <<"a", ".txt">>]
PathB == [parent |-> "/d", name |-> <<"b", ".pdf">>]
Paths == {PathA, PathB}
\* further paths for the checks _index_file makes before it reads a file:
\* one more per size class and one per hidden-name prefix
PathDocx == [parent |-> "/d", name |-> <<"c", ".docx">>]
PathBin == [parent |-> "/d", name |-> <<"d", ".bin">>]
PathNoExt == [parent |-> "/d", name |-> <<"e">>]
PathDot == [parent |-> "/d", name |-> <<".", "env">>]
PathDunder == [parent |-> "/d", name |-> <<"__", "init", ".py">>]
PathLock == [parent |-> "/d", name |-> <<"~$", "report", ".docx">>]
GatePaths == {PathDocx, PathBin, PathNoExt, PathDot, PathDunder, PathLock}
AllPaths == Paths \cup GatePaths
NoPath == [parent |-> "", name |-> <<>>]

\* Path(file_path).suffix.lower(): the last token, when it is an extension
Suffix(p) ==
  IF Len(p.name) >= 2 /\ p.name[Len(p.name)] \in {".txt", ".md", ".py", ".js", ".html", ".css", ".pdf", ".docx", ".xlsx", ".pptx", ".bin"}
    THEN p.name[Len(p.name)] ELSE ""

\* a hidden-name test that knows the leading dot only
IsHiddenName_DotOnly(p) == p.name # <<>> /\ p.name[1] = "."

\* name.startswith((".", "__", "~$"))
IsHiddenName(p) == p.name # <<>> /\ p.name[1] \in {".", "__", "~$"}

PdfLimit == 50000000
OfficeLimit == 20000000
TextLimit == 5000000
DefaultLimit == 10000000

SizeLimit(ext) ==
  IF ext = ".pdf" THEN PdfLimit
  ELSE IF ext \in {".docx", ".xlsx", ".pptx"} THEN OfficeLimit
  ELSE IF ext \in {".txt", ".md", ".py", ".js", ".html", ".css"} THEN TextLimit
  ELSE DefaultLimit

\* a size test that refuses a file of exactly the limit
WithinSizeLimit_Below(size, ext) == size < SizeLimit(ext)

\* a size strictly above the limit is refused
WithinSizeLimit(size, ext) == ~(size > SizeLimit(ext))

\* the sizes files are written with: at the limit of their class and one byte over
FileSizes(p) == {SizeLimit(Suffix(p)), SizeLimit(Suffix(p)) + 1}

Missing(m) == [kind |-> "missing", size |-> 0, mtime |-> m]
Directory(m) == [kind |-> "dir", size |-> 0, mtime |-> m]
RegularFile(sz, m) == [kind |-> "file", size |-> sz, mtime |-> m]

(***************************************************************************)
(* The store: record ids, FileMetadata, records                            *)
(***************************************************************************)
\* a hash of the directory of the file instead of its path
FileHash_ParentOnly(p) == <<"sha256", p.parent, <<>>>>

\* hashlib.sha256(file_path.encode()).hexdigest(): a function of the path only
FileHash(p) == <<"sha256", p.parent, p.name>>
MetaId(file_id) == <<"meta-", file_id>>
ContentId(file_id) == <<"content-", file_id>>
RecordIds == {MetaId(FileHash(p)) : p \in AllPaths} \cup {ContentId(FileHash(p)) : p \in AllPaths}

NoContent == <<>>
NoMetadata == [file_id |-> <<>>, path |-> NoPath, size |-> 0, modified_at |-> 0]
\* what a collection holds under an id it has no record for
NoRecord == [document |-> <<>>, metadata |-> NoMetadata]

\* _extract_metadata: the snapshot of a file taken by os.stat
FileMetadata(p, f) == [file_id |-> FileHash(p), path |-> p, size |-> f.size, modified_at |-> f.mtime]

\* the text an extractor returns for the version of the file it reads
ExtractedText(p, f) == <<"text", p.name, f.mtime>>

\* collection.upsert(documents=[doc], metadatas=[md], ids=[id])
Upsert(coll, id, doc, md) == [coll EXCEPT ![id] = [document |-> doc, metadata |-> md]]
\* collection.delete(ids=[id]); an absent id is no error
Delete(coll, id) == [coll EXCEPT ![id] = NoRecord]
\* collection.get(ids=[id])["ids"]
GetIds(coll, id) == IF coll[id] # NoRecord THEN {id} ELSE {}
\* collection.get(where={"file_id": file_id})["metadatas"]
GetWhere(coll, file_id) == {coll[id].metadata : id \in {i \in RecordIds : coll[i] # NoRecord /\ coll[i].metadata.file_id = file_id}}

VARIABLES
  \* ---- FileProcessingQueue ----
  max_size,          \* constructor argument of the queue
  queue,             \* self._queue : FIFO of FileTask
  unfinished_tasks,  \* queue.Queue's count of put items without task_done
  shutdown_event,    \* self._shutdown_event
  stats,             \* self._stats : total_added, total_processed, total_failed
  \* ---- threads ----
  ppc, pcount, ptask,    \* producer: position, add_task calls made, call in progress
  wpc, wtask, wstatus,   \* worker: position, task in hand, outcome of process_task
  wcall,                 \* worker: was the latch set when its get_task call began
  processing_stats,      \* main.processing_stats outcome counters
  cleaned,               \* workers whose processor.cleanup() has run
  \* ---- history ----
  enqLog,            \* tasks in the order queue.put accepted them
  deqLog,            \* tasks in the order queue.get returned them
  completions,       \* task id -> number of task_completed calls for it
  raised,            \* ids of the tasks whose processing raised in the worker
  plate,             \* producer -> its last add_task call begun after shutdown()
  wlate              \* worker -> result of its last get_task call begun after shutdown()

VARIABLES
  \* ---- file system and store (shared by FileProcessor and Indexer) ----
  fs,                   \* path -> the file at that path
  metadata_collection,  \* record id -> record of the "file_metadata" collection
  content_collection,   \* record id -> record of the "file_content" collection
  \* ---- FileProcessor ----
  fpc,                  \* position of the processor inside process_task
  ftask,                \* the task process_task was called with
  fl,                   \* locals of _index_file / _delete_file / _move_file
  start_store,          \* the two collections when the task began
  indexed               \* history: the (path, modified time) _index_file returned SUCCESS for

VARIABLES
  \* ---- Indexer (db/indexer.py) with batching ----
  ipc,                  \* position of the Indexer process
  pending_metadata,     \* self.pending_metadata
  pending_content,      \* self.pending_content
  batch_backup_file,    \* contents of <db_path>/batch_backup.json, if it exists
  collections_bound,    \* self.metadata_collection / content_collection are set
  walk,                 \* index_directory: the files os.walk has yet to yield
  fctx,                 \* the caller of the _flush_batch in progress
  backup_found,         \* the backup file the constructor found
  flushed,              \* the last step was a _flush_batch returning normally
  eflushes              \* the flushes _emergency_flush has begun in this process

VARIABLES
  \* ---- FileChangeHandler (filesystem/filechangehandler.py) ----
  clock,                \* time.time(), in seconds
  last_modified_times,  \* self.last_modified_times : path -> time
  hpc,                  \* position of the observer thread inside on_modified
  hpath,                \* event.src_path of the on_modified call in progress
  busy,                 \* the files another program holds
  elog                  \* the events delivered so far, in order

VARIABLES
  \* ---- Searcher (db/searcher.py) and the search endpoint (main.py) ----
  spc,                  \* position of the request being served
  limit,                \* the limit of the request
  metadata_results,     \* what metadata_collection.query returns: (id, distance)
  content_results,      \* what content_collection.query returns: (id, distance)
  weighted_results,     \* __merge_results: the dict, in insertion order
  sorted_results,       \* what Searcher.search returns
  response              \* the SearchResponse of the endpoint

VARIABLES
  \* ---- the FileProcessor of each worker thread (utils/worker_utils.py) ----
  cpc,                  \* worker -> position of its processor inside process_task
  ctask,                \* worker -> the task its process_task was called with
  cl                    \* worker -> locals of its _index_file / _delete_file

svars == <<fs, metadata_collection, content_collection>>
pvars == <<fpc, ftask, fl, start_store, indexed>>
bvars == <<ipc, pending_metadata, pending_content, batch_backup_file, collections_bound, walk, fctx, backup_found, flushed, eflushes>>

qvars == <<max_size, queue, unfinished_tasks, shutdown_event, stats>>
tvars == <<ppc, pcount, ptask, wpc, wtask, wstatus, wcall, processing_stats, cleaned>>
hvars == <<enqLog, deqLog, completions, raised, plate, wlate>>
wvars == <<clock, last_modified_times, hpc, hpath, busy, elog>>
schvars == <<spc, limit, metadata_results, content_results, weighted_results, sorted_results, response>>
cvars == <<cpc, ctask, cl>>
vars == <<qvars, tvars, hvars, svars, pvars, bvars, wvars, schvars, cvars>>

Range(s) == {s[i] : i \in 1..Len(s)}

NoCall == [task |-> NoTask, late |-> FALSE]
NoLate == [task |-> NoTask, result |-> "none"]

(***************************************************************************)
(* Initial file system and store; FileProcessor.__init__                   *)
(***************************************************************************)
StoreInit ==
  /\ fs = [p \in Paths |-> Missing(0)]
  /\ metadata_collection = [id \in RecordIds |-> NoRecord]
  /\ content_collection = [id \in RecordIds |-> NoRecord]

NoFTask == [task_type |-> "none", file_path |-> NoPath, metadata |-> "none"]
NoLocals == [path |-> NoPath, metadata |-> NoMetadata, content |-> NoContent,
             step |-> 0, delete_success |-> FALSE, index_status |-> "none",
             status |-> "none", raised |-> FALSE]
NoStore == <<>>

ProcInit ==
  /\ fpc = "idle"
  /\ ftask = NoFTask
  /\ fl = NoLocals
  /\ start_store = NoStore
  /\ indexed = {}

\* no Indexer process is running and no backup file exists
NoFile == [exists |-> FALSE, valid |-> TRUE, pending_metadata |-> <<>>, pending_content |-> <<>>]
BatchInit ==
  /\ ipc = "down"
  /\ pending_metadata = <<>>
  /\ pending_content = <<>>
  /\ batch_backup_file = NoFile
  /\ collections_bound = FALSE
  /\ walk = <<>>
  /\ fctx = "none"
  /\ backup_found = NoFile
  /\ flushed = FALSE
  /\ eflushes = 0

\* FileChangeHandler.__init__ lines 8-11
WatchInit ==
  /\ clock = 0
  /\ last_modified_times = <<>>
  /\ hpc = "idle"
  /\ hpath = NoPath
  /\ busy = {}
  /\ elog = <<>>

\* no search request is being served
NoResults == <<>>

SearchInit ==
  /\ spc = "idle"
  /\ limit = 0
  /\ metadata_results = NoResults
  /\ content_results = NoResults
  /\ weighted_results = <<>>
  /\ sorted_results = <<>>
  /\ response = [status |-> 0, results |-> <<>>]

(***************************************************************************)
(* FileProcessingQueue.__init__                                            *)
(***************************************************************************)
QueueInit ==
  /\ max_size \in {0, BoundedMaxSize}
  /\ queue = <<>>
  /\ unfinished_tasks = 0
  /\ shutdown_event = FALSE
  /\ stats = [total_added |-> 0, total_processed |-> 0, total_failed |-> 0]

\* worker_utils.py line 78: each worker constructs its own FileProcessor
WorkersInit ==
  /\ cpc = [w \in Workers |-> "idle"]
  /\ ctask = [w \in Workers |-> NoFTask]
  /\ cl = [w \in Workers |-> NoLocals]

ThreadsInit ==
  /\ WorkersInit
  /\ ppc = [p \in Producers |-> "idle"]
  /\ pcount = [p \in Producers |-> 0]
  /\ ptask = [p \in Producers |-> NoCall]
  /\ wpc = [w \in Workers |-> "loop"]
  /\ wtask = [w \in Workers |-> NoTask]
  /\ wstatus = [w \in Workers |-> "none"]
  /\ wcall = [w \in Workers |-> FALSE]
  /\ processing_stats = [s \in ProcessingStatus |-> 0]
  /\ cleaned = {}

HistoryInit ==
  /\ enqLog = <<>>
  /\ deqLog = <<>>
  /\ completions = [t \in TaskIds |-> 0]
  /\ raised = {}
  /\ plate = [p \in Producers |-> NoLate]
  /\ wlate = [w \in Workers |-> "none"]

InitQueue == QueueInit /\ ThreadsInit /\ HistoryInit /\ StoreInit /\ ProcInit /\ BatchInit /\ WatchInit /\ SearchInit

(***************************************************************************)
(* FileProcessingQueue.add_task, one step per atomic section               *)
(***************************************************************************)
\* line 74: the shutdown test that opens add_task
AddTaskRejects == shutdown_event

\* queue.Queue.put(task, timeout=1.0): room unless a bounded queue is full
QueueHasRoom == max_size = 0 \/ Len(queue) < max_size

\* the record of an add_task call that returns; plate keeps the late ones
AddReturn(p, call, result) ==
  IF call.late THEN [plate EXCEPT ![p] = [task |-> call.task, result |-> result]] ELSE plate

\* a producer calls add_task(task): lines 74-75
AddTask(p) ==
  /\ ppc[p] = "idle"
  /\ pcount[p] < TasksPerThread
  /\ LET call == [task |-> FileTask(p, pcount[p] + 1), late |-> shutdown_event] IN
       /\ pcount' = [pcount EXCEPT ![p] = @ + 1]
       /\ IF AddTaskRejects
            THEN /\ plate' = AddReturn(p, call, "False")
                 /\ UNCHANGED <<ppc, ptask>>
            ELSE /\ ppc' = [ppc EXCEPT ![p] = "put"]
                 /\ ptask' = [ptask EXCEPT ![p] = call]
                 /\ UNCHANGED plate
  /\ UNCHANGED <<qvars, wpc, wtask, wstatus, wcall, processing_stats, cleaned, enqLog, deqLog, completions, raised, wlate>>
  /\ UNCHANGED <<svars, pvars, bvars, wvars, schvars, cvars>>

\* line 78 and lines 90-92: put, or queue.Full once the timeout has passed
AddTaskPut(p) ==
  /\ ppc[p] = "put"
  /\ IF QueueHasRoom
       THEN /\ queue' = Append(queue, ptask[p].task)
            /\ unfinished_tasks' = unfinished_tasks + 1
            /\ enqLog' = Append(enqLog, ptask[p].task)
            /\ ppc' = [ppc EXCEPT ![p] = "add_stats"]
            /\ UNCHANGED <<ptask, plate>>
       ELSE /\ ppc' = [ppc EXCEPT ![p] = "idle"]
            /\ plate' = AddReturn(p, ptask[p], "False")
            /\ ptask' = [ptask EXCEPT ![p] = NoCall]
            /\ UNCHANGED <<queue, unfinished_tasks, enqLog>>
  /\ UNCHANGED <<max_size, shutdown_event, stats, pcount, wpc, wtask, wstatus, wcall, processing_stats, cleaned, deqLog, completions, raised, wlate>>
  /\ UNCHANGED <<svars, pvars, bvars, wvars, schvars, cvars>>

\* lines 80-88: count the task under the stats lock and return True
AddTaskStats(p) ==
  /\ ppc[p] = "add_stats"
  /\ stats' = [stats EXCEPT !.total_added = @ + 1]
  /\ ppc' = [ppc EXCEPT ![p] = "idle"]
  /\ plate' = AddReturn(p, ptask[p], "True")
  /\ ptask' = [ptask EXCEPT ![p] = NoCall]
  /\ UNCHANGED <<max_size, queue, unfinished_tasks, shutdown_event, pcount, wpc, wtask, wstatus, wcall, processing_stats, cleaned, enqLog, deqLog, completions, raised, wlate>>
  /\ UNCHANGED <<svars, pvars, bvars, wvars, schvars, cvars>>

(***************************************************************************)
(* FileProcessingQueue.shutdown / is_shutdown                              *)
(***************************************************************************)
\* a shutdown() that flips the event instead of setting it
Shutdown_Toggle ==
  /\ shutdown_event' = ~shutdown_event
  /\ UNCHANGED <<max_size, queue, unfinished_tasks, stats, tvars, hvars>>
  /\ UNCHANGED <<svars, pvars, bvars, wvars, schvars, cvars>>

\* shutdown() lines 176-184: self._shutdown_event.set()
Shutdown ==
  /\ shutdown_event' = TRUE
  /\ UNCHANGED <<max_size, queue, unfinished_tasks, stats, tvars, hvars>>
  /\ UNCHANGED <<svars, pvars, bvars, wvars, schvars, cvars>>

\* is_shutdown() has callers and tests in the sources but no definition
IsShutdown == shutdown_event

(***************************************************************************)
(* FileProcessingQueue.task_completed                                      *)
(***************************************************************************)
\* a task_completed that refuses to count once the queue is shut down
TaskCompletedStats_NotAfterShutdown(success) ==
  IF shutdown_event THEN stats
  ELSE IF success THEN [stats EXCEPT !.total_processed = @ + 1]
  ELSE [stats EXCEPT !.total_failed = @ + 1]

\* task_completed lines 124-128: no test of the shutdown event
TaskCompletedStats(success) ==
  IF success THEN [stats EXCEPT !.total_processed = @ + 1]
             ELSE [stats EXCEPT !.total_failed = @ + 1]

(***************************************************************************)
(* FileProcessingQueue.get_progress                                        *)
(***************************************************************************)
\* lines 146-150: completed tasks as a percentage of the added ones (the
\* code's float is a whole number at the values compared here: 0 and 100)
ProgressPercentage(st) ==
  IF st.total_added > 0
    THEN ((st.total_processed + st.total_failed) * 100) \div st.total_added
    ELSE 0

\* get_progress lines 142-166: the dictionary it returns, without the
\* wall-clock processing_rate
GetProgress ==
  [is_processing |-> (stats.total_processed + stats.total_failed) < stats.total_added,
   total_added |-> stats.total_added,
   total_processed |-> stats.total_processed,
   total_failed |-> stats.total_failed,
   progress_percentage |-> ProgressPercentage(stats)]

(***************************************************************************)
(* utils/worker_utils.py : file_processing_worker_loop                     *)
(***************************************************************************)
\* lines 116-119: the finally block calls processor.cleanup() of the worker's
\* own FileProcessor
CleanupOnExit(w) == {w}

\* line 85: while not is_shutdown(); the finally block runs cleanup()
WorkerLoop(w) ==
  /\ wpc[w] = "loop"
  /\ IF IsShutdown
       THEN /\ wpc' = [wpc EXCEPT ![w] = "stopped"]
            /\ cleaned' = cleaned \cup CleanupOnExit(w)
       ELSE /\ wpc' = [wpc EXCEPT ![w] = "get_task"]
            /\ UNCHANGED cleaned
  /\ UNCHANGED <<qvars, ppc, pcount, ptask, wtask, wstatus, wcall, processing_stats, hvars>>
  /\ UNCHANGED <<svars, pvars, bvars, wvars, schvars, cvars>>

\* get_task without its shutdown test
GetTaskRejects_NoCheck == FALSE

\* get_task line 107: the shutdown test that opens get_task
GetTaskRejects == shutdown_event

\* line 86 calling get_task, lines 107-108
GetTask(w) ==
  /\ wpc[w] = "get_task"
  /\ IF GetTaskRejects
       THEN /\ wpc' = [wpc EXCEPT ![w] = "loop"]
            /\ wlate' = [wlate EXCEPT ![w] = IF shutdown_event THEN "None" ELSE @]
            /\ UNCHANGED wcall
       ELSE /\ wpc' = [wpc EXCEPT ![w] = "get_wait"]
            /\ wcall' = [wcall EXCEPT ![w] = shutdown_event]
            /\ UNCHANGED wlate
  /\ UNCHANGED <<qvars, ppc, pcount, ptask, wtask, wstatus, processing_stats, cleaned, enqLog, deqLog, completions, raised, plate>>
  /\ UNCHANGED <<svars, pvars, bvars, wvars, schvars, cvars>>

\* a queue that hands out the newest item first
GetIndex_Lifo(q) == Len(q)

\* the position queue.Queue.get takes an item from: the head
GetIndex(q) == 1

\* a get that leaves the item in the queue
Dequeued_Peek(q, i) == q

\* the queue once queue.Queue.get has popped the item at position i
Dequeued(q, i) == [j \in 1..(Len(q) - 1) |-> IF j < i THEN q[j] ELSE q[j + 1]]

\* lines 110-114: queue.get(timeout) returns an item, or times out when empty
GetTaskWait(w) ==
  /\ wpc[w] = "get_wait"
  /\ IF queue # <<>>
       THEN LET i == GetIndex(queue) IN
            /\ wtask' = [wtask EXCEPT ![w] = queue[i]]
            /\ queue' = Dequeued(queue, i)
            /\ deqLog' = Append(deqLog, queue[i])
            /\ wlate' = [wlate EXCEPT ![w] = IF wcall[w] THEN "task" ELSE @]
            /\ wpc' = [wpc EXCEPT ![w] = "process"]
       ELSE /\ wpc' = [wpc EXCEPT ![w] = "loop"]
            /\ wlate' = [wlate EXCEPT ![w] = IF wcall[w] THEN "None" ELSE @]
            /\ UNCHANGED <<wtask, queue, deqLog>>
  /\ wcall' = [wcall EXCEPT ![w] = FALSE]
  /\ UNCHANGED <<max_size, unfinished_tasks, shutdown_event, stats, ppc, pcount, ptask, wstatus, processing_stats, cleaned, enqLog, completions, raised, plate>>
  /\ UNCHANGED <<svars, pvars, bvars, wvars, schvars, cvars>>

\* a worker that reports only Success as success
SuccessStatuses_OnlySuccess == {SUCCESS}

\* statuses the worker reports to the queue as success (line 105)
SuccessStatuses == {SUCCESS, SKIPPED, HIDDEN, LARGE}

\* an except branch that reports the task as processed
ExceptReports_Success == TRUE

\* line 114: the except branch calls task_completed(task, False)
ExceptReports == FALSE

\* the success argument of the worker's task_completed call (lines 105-106, 114)
ReportedSuccess(status) == IF status = "raised" THEN ExceptReports ELSE status \in SuccessStatuses

\* file_processor.py process_task, lines 131-139: the statuses each task type
\* can come back with (what decides among them is the subject of SpecProc)
ProcessTaskReturns(tt) ==
  IF tt \in {INDEX_FILE, UPDATE_FILE} THEN ProcessingStatus ELSE {SUCCESS, FAILURE}

\* lines 94-105 and 108-113: process_task returns a status and the counter of
\* that status is incremented; or the try body raises and the except branch
\* counts a failure
WorkerProcess(w) ==
  /\ wpc[w] = "process"
  /\ \E outcome \in ProcessTaskReturns(wtask[w].task_type) \cup {"raise"} :
       IF outcome = "raise"
         THEN /\ wstatus' = [wstatus EXCEPT ![w] = "raised"]
              /\ raised' = raised \cup {wtask[w].id}
              /\ processing_stats' = [processing_stats EXCEPT ![FAILURE] = @ + 1]
         ELSE /\ wstatus' = [wstatus EXCEPT ![w] = outcome]
              /\ UNCHANGED raised
              /\ processing_stats' = [processing_stats EXCEPT ![outcome] = @ + 1]
  /\ wpc' = [wpc EXCEPT ![w] = IF wstatus'[w] = "raised" THEN "complete" ELSE "report"]
  /\ UNCHANGED <<qvars, ppc, pcount, ptask, wtask, wcall, cleaned, enqLog, deqLog, completions, plate, wlate>>
  /\ UNCHANGED <<svars, pvars, bvars, wvars, schvars, cvars>>

\* line 103: thread_safe_print of the result, inside the try body and after
\* the counter of the status has been incremented; print writes to stdout
\* and raises OSError when the write fails, and then the except branch
\* (lines 108-113) counts a failure for the same task
WorkerReport(w) ==
  /\ wpc[w] = "report"
  /\ \E printed \in BOOLEAN :
       IF printed
         THEN UNCHANGED <<wstatus, raised, processing_stats>>
         ELSE /\ wstatus' = [wstatus EXCEPT ![w] = "raised"]
              /\ raised' = raised \cup {wtask[w].id}
              /\ processing_stats' = [processing_stats EXCEPT ![FAILURE] = @ + 1]
  /\ wpc' = [wpc EXCEPT ![w] = "complete"]
  /\ UNCHANGED <<qvars, ppc, pcount, ptask, wtask, wcall, cleaned, enqLog, deqLog, completions, plate, wlate>>
  /\ UNCHANGED <<svars, pvars, bvars, wvars, schvars, cvars>>

\* an except branch that forgets task_completed
CompleteCalls_NoneOnRaise(status) == IF status = "raised" THEN 0 ELSE 1

\* the number of task_completed calls the worker makes for a task it holds
CompleteCalls(status) == 1

\* line 106 / line 114: task_completed(task, success), then the next round
WorkerComplete(w) ==
  /\ wpc[w] = "complete"
  /\ LET n == CompleteCalls(wstatus[w]) IN
       /\ stats' = IF n = 0 THEN stats
                   ELSE IF n = 1 THEN TaskCompletedStats(ReportedSuccess(wstatus[w]))
                   ELSE [stats EXCEPT !.total_failed = @ + n]
       /\ unfinished_tasks' = unfinished_tasks - n
       /\ completions' = [completions EXCEPT ![wtask[w].id] = @ + n]
  /\ wpc' = [wpc EXCEPT ![w] = "loop"]
  /\ wtask' = [wtask EXCEPT ![w] = NoTask]
  /\ wstatus' = [wstatus EXCEPT ![w] = "none"]
  /\ UNCHANGED <<max_size, queue, shutdown_event, ppc, pcount, ptask, wcall, processing_stats, cleaned, enqLog, deqLog, raised, plate, wlate>>
  /\ UNCHANGED <<svars, pvars, bvars, wvars, schvars, cvars>>

NextQueue ==
  \/ \E p \in Producers : AddTask(p)
  \/ \E p \in Producers : AddTaskPut(p)
  \/ \E p \in Producers : AddTaskStats(p)
  \/ Shutdown
  \/ \E w \in Workers : WorkerLoop(w)
  \/ \E w \in Workers : GetTask(w)
  \/ \E w \in Workers : GetTaskWait(w)
  \/ \E w \in Workers : WorkerProcess(w)
  \/ \E w \in Workers : WorkerReport(w)
  \/ \E w \in Workers : WorkerComplete(w)

SpecQueue == InitQueue /\ [][NextQueue]_vars

\* worker threads are scheduled: a worker that can take its next step takes it
WorkerFairness ==
  \A w \in Workers :
    /\ WF_vars(WorkerLoop(w))
    /\ WF_vars(GetTask(w))
    /\ WF_vars(GetTaskWait(w))
    /\ WF_vars(WorkerProcess(w))
    /\ WF_vars(WorkerReport(w))
    /\ WF_vars(WorkerComplete(w))

SpecQueueFair == SpecQueue /\ WorkerFairness

(***************************************************************************)
(* processing/file_processor.py : FileProcessor                            *)
(* One step per file-system read and per store call; a store call either   *)
(* succeeds or raises.                                                     *)
(***************************************************************************)
allq == <<qvars, tvars, hvars, bvars, wvars, schvars, cvars>>

NoMoveMetadata == [old_path |-> NoPath, new_path |-> NoPath]

\* the tasks the watcher and the directory walk create, and Move tasks that
\* lack a path
ProcTasks ==
  {[task_type |-> tt, file_path |-> p, metadata |-> NoMoveMetadata] :
      tt \in {INDEX_FILE, UPDATE_FILE, DELETE_FILE}, p \in Paths}
  \cup {[task_type |-> MOVE_FILE, file_path |-> m[2], metadata |-> [old_path |-> m[1], new_path |-> m[2]]] :
      m \in {x \in Paths \X Paths : x[1] # x[2]}}
  \cup {[task_type |-> MOVE_FILE, file_path |-> n, metadata |-> [old_path |-> NoPath, new_path |-> n]] :
      n \in Paths}

\* process_task returns status (lines 131-143)
TaskReturns(status, l) ==
  /\ fpc' = "done"
  /\ fl' = [l EXCEPT !.status = status]
  /\ UNCHANGED <<ftask, start_store>>

\* bool() of a ProcessingStatus member: Enum members are all true
Truthy(status) == TRUE

\* _move_file lines 240-245
MoveOutcome(delete_success, index_status) == delete_success /\ Truthy(index_status)

\* a move that indexes the new path before it deletes the old one
MoveOrder_IndexFirst == <<"index", "delete">>

\* _move_file lines 236-238: delete the old path, then index the new path
MoveOrder == <<"delete", "index">>
FirstPc(op) == IF op = "delete" THEN "delete_get" ELSE "index_stat"
OpPath(op, task) == IF op = "delete" THEN task.metadata.old_path ELSE task.metadata.new_path

\* a call made by _move_file has returned value
SubReturns(op, value, l) ==
  LET l2 == IF op = "delete" THEN [l EXCEPT !.delete_success = value]
                             ELSE [l EXCEPT !.index_status = value] IN
  IF l.step < Len(MoveOrder)
    THEN /\ fpc' = FirstPc(MoveOrder[l.step + 1])
         /\ fl' = [l2 EXCEPT !.step = @ + 1, !.path = OpPath(MoveOrder[l.step + 1], ftask)]
         /\ UNCHANGED <<ftask, start_store>>
    ELSE TaskReturns(IF MoveOutcome(l2.delete_success, l2.index_status) THEN SUCCESS ELSE FAILURE, l2)

\* _index_file returns status, to process_task (line 132) or to _move_file
IndexReturns(status, l) ==
  IF ftask.task_type = MOVE_FILE THEN SubReturns("index", status, l) ELSE TaskReturns(status, l)

\* _delete_file returns ok, to process_task (line 134) or to _move_file
DeleteReturns(ok, l) ==
  IF ftask.task_type = MOVE_FILE THEN SubReturns("delete", ok, l)
  ELSE TaskReturns(IF ok THEN SUCCESS ELSE FAILURE, l)

\* a dispatch that sends only Index tasks to _index_file
IndexTypes_IndexOnly == {INDEX_FILE}

\* process_task line 131: the task types handed to _index_file
IndexTypes == {INDEX_FILE, UPDATE_FILE}

\* process_task(task): the dispatch on the task type, and _move_file's
\* checks of its metadata (lines 225-234)
ProcessTask(t) ==
  /\ fpc = "idle"
  /\ ftask' = t
  /\ start_store' = <<metadata_collection, content_collection>>
  /\ IF t.task_type \in IndexTypes
       THEN fpc' = "index_stat" /\ fl' = [NoLocals EXCEPT !.path = t.file_path]
     ELSE IF t.task_type = DELETE_FILE
       THEN fpc' = "delete_get" /\ fl' = [NoLocals EXCEPT !.path = t.file_path]
     ELSE IF t.metadata.old_path = NoPath \/ t.metadata.new_path = NoPath
       THEN fpc' = "done" /\ fl' = [NoLocals EXCEPT !.status = FAILURE]
     ELSE /\ fpc' = FirstPc(MoveOrder[1])
          /\ fl' = [NoLocals EXCEPT !.step = 1, !.path = OpPath(MoveOrder[1], t)]
  /\ UNCHANGED <<allq, indexed, svars>>

\* checks that look at the name before they look for the file
IndexGate_NameFirst(p, f) ==
  IF IsHiddenName(p) THEN HIDDEN
  ELSE IF f.kind # "file" THEN FAILURE
  ELSE IF ~WithinSizeLimit(f.size, Suffix(p)) THEN LARGE
  ELSE "pass"

\* _index_file lines 147-159: the checks made before the file is read, in
\* their order: existence, hidden name, size limit
IndexGate(p, f) ==
  IF f.kind # "file" THEN FAILURE
  ELSE IF IsHiddenName(p) THEN HIDDEN
  ELSE IF ~WithinSizeLimit(f.size, Suffix(p)) THEN LARGE
  ELSE "pass"

\* an indexing that forgets the records of a path it finds missing
RefusedStore_ForgetMissing(coll, p, status) ==
  IF status = FAILURE THEN Delete(coll, MetaId(FileHash(p))) ELSE coll

\* _index_file lines 147-159: each of the three checks returns its status
\* at once, with no store call before it
RefusedStore(coll, p, status) == coll

\* _index_file lines 147-164: the checks, then the metadata
IndexStat ==
  /\ fpc = "index_stat"
  /\ LET p == fl.path
         f == fs[p] IN
       IF IndexGate(p, f) # "pass"
         THEN /\ IndexReturns(IndexGate(p, f), fl)
              /\ metadata_collection' = RefusedStore(metadata_collection, p, IndexGate(p, f))
       ELSE /\ fpc' = "index_unchanged"
            /\ fl' = [fl EXCEPT !.metadata = FileMetadata(p, f), !.content = NoContent]
            /\ UNCHANGED <<ftask, start_store, metadata_collection>>
  /\ UNCHANGED <<allq, indexed, fs, content_collection>>

\* a change detection that never finds a file unchanged
FileUnchanged_Never(coll, file_id, modified_at) == FALSE

\* _file_unchanged lines 301-310, given that the lookup did not raise
FileUnchanged(coll, file_id, modified_at) ==
  LET found == GetWhere(coll, file_id) IN
  found # {} /\ (CHOOSE m \in found : TRUE).modified_at = modified_at

\* _index_file lines 167-169; a lookup that raises counts as changed
IndexUnchanged ==
  /\ fpc = "index_unchanged"
  /\ \E ok \in BOOLEAN :
       IF ok /\ FileUnchanged(metadata_collection, fl.metadata.file_id, fl.metadata.modified_at)
         THEN IndexReturns(SKIPPED, fl)
         ELSE /\ fpc' = "index_extract"
              /\ fl' = [fl EXCEPT !.raised = @ \/ ~ok]
              /\ UNCHANGED <<ftask, start_store>>
  /\ UNCHANGED <<allq, indexed, svars>>

\* _extract_content lines 316-344: the extensions an extractor is chosen
\* for; any other file of the model has no text/* MIME type either
HasExtractor(p) == Suffix(p) \in {".pdf", ".docx", ".xlsx", ".pptx", ".html", ".md", ".py", ".js", ".css", ".txt"}

\* an indexing that writes a content record whatever was extracted
HasContent_Always(content) == TRUE

\* _index_file line 182: "if content"
HasContent(content) == content # NoContent

\* _extract_content lines 312-351: the text of the file as it is now, or
\* None when no extractor matches, the extractor fails or the file is gone
IndexExtract ==
  /\ fpc = "index_extract"
  /\ \E c \in (IF fs[fl.path].kind = "file" /\ HasExtractor(fl.path) THEN {ExtractedText(fl.path, fs[fl.path])} ELSE {}) \cup {NoContent} :
       fl' = [fl EXCEPT !.content = c]
  /\ fpc' = "upsert_meta"
  /\ UNCHANGED <<allq, indexed, svars, ftask, start_store>>

\* _index_file line 190: the path and the modification time of an indexing
\* that has returned SUCCESS
IndexSucceeded(h, l) == h \cup {<<l.path, l.metadata.modified_at>>}

\* _index_file lines 175-179 (and 190 when there is no content)
IndexUpsertMeta ==
  /\ fpc = "upsert_meta"
  /\ \E ok \in BOOLEAN :
       IF ~ok
         THEN IndexReturns(FAILURE, [fl EXCEPT !.raised = TRUE]) /\ UNCHANGED <<metadata_collection, indexed>>
         ELSE /\ metadata_collection' = Upsert(metadata_collection, MetaId(fl.metadata.file_id), <<"str", fl.metadata>>, fl.metadata)
              /\ IF HasContent(fl.content)
                   THEN fpc' = "upsert_content" /\ UNCHANGED <<fl, ftask, start_store, indexed>>
                   ELSE IndexReturns(SUCCESS, fl) /\ indexed' = IndexSucceeded(indexed, fl)
  /\ UNCHANGED <<allq, fs, content_collection>>

\* _index_file lines 182-190
IndexUpsertContent ==
  /\ fpc = "upsert_content"
  /\ \E ok \in BOOLEAN :
       IF ~ok
         THEN IndexReturns(FAILURE, [fl EXCEPT !.raised = TRUE]) /\ UNCHANGED <<content_collection, indexed>>
         ELSE /\ content_collection' = Upsert(content_collection, ContentId(fl.metadata.file_id), fl.content, fl.metadata)
              /\ IndexReturns(SUCCESS, fl)
              /\ indexed' = IndexSucceeded(indexed, fl)
  /\ UNCHANGED <<allq, fs, metadata_collection>>

\* _delete_file lines 199-204 and 209-210; a get that raises leads to the
\* except branch
DeleteGet ==
  /\ fpc = "delete_get"
  /\ \E ok \in BOOLEAN :
       IF ~ok
         THEN fpc' = "delete_meta_x" /\ fl' = [fl EXCEPT !.raised = TRUE] /\ UNCHANGED <<ftask, start_store>>
         ELSE IF GetIds(metadata_collection, MetaId(FileHash(fl.path))) # {}
           THEN fpc' = "delete_meta" /\ UNCHANGED <<fl, ftask, start_store>>
           ELSE DeleteReturns(TRUE, fl)
  /\ UNCHANGED <<allq, indexed, svars>>

\* line 206; a delete that raises leads to the except branch
DeleteMeta ==
  /\ fpc = "delete_meta"
  /\ \E ok \in BOOLEAN :
       IF ok
         THEN /\ metadata_collection' = Delete(metadata_collection, MetaId(FileHash(fl.path)))
              /\ fpc' = "delete_content"
              /\ UNCHANGED fl
         ELSE /\ fpc' = "delete_meta_x"
              /\ fl' = [fl EXCEPT !.raised = TRUE]
              /\ UNCHANGED metadata_collection
  /\ UNCHANGED <<allq, indexed, fs, content_collection, ftask, start_store>>

\* lines 207-208 and 217
DeleteContent ==
  /\ fpc = "delete_content"
  /\ \E ok \in BOOLEAN :
       IF ok
         THEN /\ content_collection' = Delete(content_collection, ContentId(FileHash(fl.path)))
              /\ DeleteReturns(TRUE, fl)
         ELSE /\ fpc' = "delete_meta_x"
              /\ fl' = [fl EXCEPT !.raised = TRUE]
              /\ UNCHANGED <<content_collection, ftask, start_store>>
  /\ UNCHANGED <<allq, indexed, fs, metadata_collection>>

\* line 213, in the except branch; a delete that raises here ends in line 219
DeleteMetaRetry ==
  /\ fpc = "delete_meta_x"
  /\ \E ok \in BOOLEAN :
       IF ok
         THEN /\ metadata_collection' = Delete(metadata_collection, MetaId(FileHash(fl.path)))
              /\ fpc' = "delete_content_x"
              /\ UNCHANGED <<fl, ftask, start_store>>
         ELSE /\ DeleteReturns(FALSE, fl)
              /\ UNCHANGED metadata_collection
  /\ UNCHANGED <<allq, indexed, fs, content_collection>>

\* lines 214-217, in the except branch
DeleteContentRetry ==
  /\ fpc = "delete_content_x"
  /\ \E ok \in BOOLEAN :
       IF ok
         THEN /\ content_collection' = Delete(content_collection, ContentId(FileHash(fl.path)))
              /\ DeleteReturns(TRUE, fl)
         ELSE /\ DeleteReturns(FALSE, fl)
              /\ UNCHANGED content_collection
  /\ UNCHANGED <<allq, indexed, fs, metadata_collection>>

\* process_task has returned; the processor is free for the next task
TaskDone ==
  /\ fpc = "done"
  /\ fpc' = "idle"
  /\ ftask' = NoFTask
  /\ fl' = NoLocals
  /\ start_store' = NoStore
  /\ UNCHANGED <<allq, indexed, svars>>

\* the process dies inside a task and a new process with a new
\* FileProcessor starts: the store keeps what was written, the rest is lost
Crash ==
  /\ fpc \notin {"idle", "done"}
  /\ fpc' = "idle"
  /\ ftask' = NoFTask
  /\ fl' = NoLocals
  /\ start_store' = NoStore
  /\ UNCHANGED <<allq, indexed, svars>>

(***************************************************************************)
(* The environment: files are written, removed, replaced by directories    *)
(***************************************************************************)
RECURSIVE Writes(_, _)
Writes(f, S) == IF S = {} THEN 0 ELSE LET p == CHOOSE x \in S : TRUE IN f[p].mtime + Writes(f, S \ {p})

\* a file is created or rewritten; its modification time is newer than any
\* the path has had
FsWrite(p) ==
  /\ Writes(fs, Paths) < MaxWrites
  /\ \E sz \in FileSizes(p) : fs' = [fs EXCEPT ![p] = RegularFile(sz, fs[p].mtime + 1)]
  /\ UNCHANGED <<allq, metadata_collection, content_collection, pvars>>

FsRemove(p) ==
  /\ fs[p].kind # "missing"
  /\ fs' = [fs EXCEPT ![p] = Missing(fs[p].mtime)]
  /\ UNCHANGED <<allq, metadata_collection, content_collection, pvars>>

FsMkdir(p) ==
  /\ Writes(fs, Paths) < MaxWrites
  /\ fs[p].kind = "missing"
  /\ fs' = [fs EXCEPT ![p] = Directory(fs[p].mtime + 1)]
  /\ UNCHANGED <<allq, metadata_collection, content_collection, pvars>>

QueueIdle == QueueInit /\ ThreadsInit /\ HistoryInit

InitProc == QueueIdle /\ max_size = 0 /\ StoreInit /\ ProcInit /\ BatchInit /\ WatchInit /\ SearchInit

NextProc ==
  \/ \E t \in ProcTasks : ProcessTask(t)
  \/ IndexStat
  \/ IndexUnchanged
  \/ IndexExtract
  \/ IndexUpsertMeta
  \/ IndexUpsertContent
  \/ DeleteGet
  \/ DeleteMeta
  \/ DeleteContent
  \/ DeleteMetaRetry
  \/ DeleteContentRetry
  \/ TaskDone
  \/ Crash
  \/ \E p \in Paths : FsWrite(p)
  \/ \E p \in Paths : FsRemove(p)
  \/ \E p \in Paths : FsMkdir(p)

SpecProc == InitProc /\ [][NextProc]_vars

(***************************************************************************)
(* utils/worker_utils.py with processing/file_processor.py : the worker    *)
(* threads run process_task at the same time, each with its own            *)
(* FileProcessor, on the one store. One step per file-system read and per  *)
(* store call, as above; the store makes each call atomic.                 *)
(***************************************************************************)
WorkersFrame == UNCHANGED <<qvars, tvars, hvars, pvars, bvars, wvars, schvars>>

\* the tasks the watcher creates for a file that is created or modified
\* (on_created, on_modified) and for one that is removed (on_deleted)
WorkerTasks ==
  {[task_type |-> tt, file_path |-> p, metadata |-> NoMoveMetadata] :
      tt \in {INDEX_FILE, DELETE_FILE}, p \in Paths}

\* worker w moves to position pc with locals l
WorkerGoes(w, pc, l) ==
  /\ cpc' = [cpc EXCEPT ![w] = pc]
  /\ cl' = [cl EXCEPT ![w] = l]
  /\ UNCHANGED ctask

\* process_task of worker w returns status (lines 131-143)
WorkerReturns(w, status, l) == WorkerGoes(w, "done", [l EXCEPT !.status = status])

\* worker_utils.py line 95: processor.process_task(task), and the dispatch of
\* process_task lines 131-134
WorkerProcessTask(w, t) ==
  /\ cpc[w] = "idle"
  /\ ctask' = [ctask EXCEPT ![w] = t]
  /\ cpc' = [cpc EXCEPT ![w] = IF t.task_type \in IndexTypes THEN "index_stat" ELSE "delete_get"]
  /\ cl' = [cl EXCEPT ![w] = [NoLocals EXCEPT !.path = t.file_path]]
  /\ UNCHANGED svars
  /\ WorkersFrame

\* _index_file lines 147-164
WorkerIndexStat(w) ==
  /\ cpc[w] = "index_stat"
  /\ LET p == cl[w].path
         f == fs[p] IN
       IF IndexGate(p, f) # "pass"
         THEN /\ WorkerReturns(w, IndexGate(p, f), cl[w])
              /\ metadata_collection' = RefusedStore(metadata_collection, p, IndexGate(p, f))
         ELSE /\ WorkerGoes(w, "index_unchanged", [cl[w] EXCEPT !.metadata = FileMetadata(p, f), !.content = NoContent])
              /\ UNCHANGED metadata_collection
  /\ UNCHANGED <<fs, content_collection>>
  /\ WorkersFrame

\* _index_file lines 167-169
WorkerIndexUnchanged(w) ==
  /\ cpc[w] = "index_unchanged"
  /\ \E ok \in BOOLEAN :
       IF ok /\ FileUnchanged(metadata_collection, cl[w].metadata.file_id, cl[w].metadata.modified_at)
         THEN WorkerReturns(w, SKIPPED, cl[w])
         ELSE WorkerGoes(w, "index_extract", [cl[w] EXCEPT !.raised = @ \/ ~ok])
  /\ UNCHANGED svars
  /\ WorkersFrame

\* _index_file line 172, _extract_content lines 312-351
WorkerIndexExtract(w) ==
  /\ cpc[w] = "index_extract"
  /\ \E c \in (IF fs[cl[w].path].kind = "file" /\ HasExtractor(cl[w].path) THEN {ExtractedText(cl[w].path, fs[cl[w].path])} ELSE {}) \cup {NoContent} :
       WorkerGoes(w, "upsert_meta", [cl[w] EXCEPT !.content = c])
  /\ UNCHANGED svars
  /\ WorkersFrame

\* _index_file lines 175-179 (and 190 when there is no content)
WorkerIndexUpsertMeta(w) ==
  /\ cpc[w] = "upsert_meta"
  /\ \E ok \in BOOLEAN :
       IF ~ok
         THEN WorkerReturns(w, FAILURE, [cl[w] EXCEPT !.raised = TRUE]) /\ UNCHANGED metadata_collection
         ELSE /\ metadata_collection' = Upsert(metadata_collection, MetaId(cl[w].metadata.file_id), <<"str", cl[w].metadata>>, cl[w].metadata)
              /\ IF HasContent(cl[w].content)
                   THEN WorkerGoes(w, "upsert_content", cl[w])
                   ELSE WorkerReturns(w, SUCCESS, cl[w])
  /\ UNCHANGED <<fs, content_collection>>
  /\ WorkersFrame

\* _index_file lines 182-190
WorkerIndexUpsertContent(w) ==
  /\ cpc[w] = "upsert_content"
  /\ \E ok \in BOOLEAN :
       IF ~ok
         THEN WorkerReturns(w, FAILURE, [cl[w] EXCEPT !.raised = TRUE]) /\ UNCHANGED content_collection
         ELSE /\ content_collection' = Upsert(content_collection, ContentId(cl[w].metadata.file_id), cl[w].content, cl[w].metadata)
              /\ WorkerReturns(w, SUCCESS, cl[w])
  /\ UNCHANGED <<fs, metadata_collection>>
  /\ WorkersFrame

\* _delete_file lines 199-204 and 209-210, 217
WorkerDeleteGet(w) ==
  /\ cpc[w] = "delete_get"
  /\ \E ok \in BOOLEAN :
       IF ~ok
         THEN WorkerGoes(w, "delete_meta_x", [cl[w] EXCEPT !.raised = TRUE])
         ELSE IF GetIds(metadata_collection, MetaId(FileHash(cl[w].path))) # {}
           THEN WorkerGoes(w, "delete_meta", cl[w])
           ELSE WorkerReturns(w, SUCCESS, cl[w])
  /\ UNCHANGED svars
  /\ WorkersFrame

\* _delete_file line 206
WorkerDeleteMeta(w) ==
  /\ cpc[w] = "delete_meta"
  /\ \E ok \in BOOLEAN :
       IF ok
         THEN /\ metadata_collection' = Delete(metadata_collection, MetaId(FileHash(cl[w].path)))
              /\ WorkerGoes(w, "delete_content", cl[w])
         ELSE /\ WorkerGoes(w, "delete_meta_x", [cl[w] EXCEPT !.raised = TRUE])
              /\ UNCHANGED metadata_collection
  /\ UNCHANGED <<fs, content_collection>>
  /\ WorkersFrame

\* _delete_file lines 207-208 and 217
WorkerDeleteContent(w) ==
  /\ cpc[w] = "delete_content"
  /\ \E ok \in BOOLEAN :
       IF ok
         THEN /\ content_collection' = Delete(content_collection, ContentId(FileHash(cl[w].path)))
              /\ WorkerReturns(w, SUCCESS, cl[w])
         ELSE /\ WorkerGoes(w, "delete_meta_x", [cl[w] EXCEPT !.raised = TRUE])
              /\ UNCHANGED content_collection
  /\ UNCHANGED <<fs, metadata_collection>>
  /\ WorkersFrame

\* _delete_file line 213, in the except branch
WorkerDeleteMetaRetry(w) ==
  /\ cpc[w] = "delete_meta_x"
  /\ \E ok \in BOOLEAN :
       IF ok
         THEN /\ metadata_collection' = Delete(metadata_collection, MetaId(FileHash(cl[w].path)))
              /\ WorkerGoes(w, "delete_content_x", cl[w])
         ELSE /\ WorkerReturns(w, FAILURE, cl[w])
              /\ UNCHANGED metadata_collection
  /\ UNCHANGED <<fs, content_collection>>
  /\ WorkersFrame

\* _delete_file lines 214-221, in the except branch
WorkerDeleteContentRetry(w) ==
  /\ cpc[w] = "delete_content_x"
  /\ \E ok \in BOOLEAN :
       IF ok
         THEN /\ content_collection' = Delete(content_collection, ContentId(FileHash(cl[w].path)))
              /\ WorkerReturns(w, SUCCESS, cl[w])
         ELSE /\ WorkerReturns(w, FAILURE, cl[w])
              /\ UNCHANGED content_collection
  /\ UNCHANGED <<fs, metadata_collection>>
  /\ WorkersFrame

\* worker_utils.py lines 97-106: the status is counted and reported, and the
\* worker is free for its next task
WorkerTaskDone(w) ==
  /\ cpc[w] = "done"
  /\ cpc' = [cpc EXCEPT ![w] = "idle"]
  /\ ctask' = [ctask EXCEPT ![w] = NoFTask]
  /\ cl' = [cl EXCEPT ![w] = NoLocals]
  /\ UNCHANGED svars
  /\ WorkersFrame

InitWorkers == QueueIdle /\ max_size = 0 /\ StoreInit /\ ProcInit /\ BatchInit /\ WatchInit /\ SearchInit

NextWorkers ==
  \/ \E w \in Workers : \E t \in WorkerTasks : WorkerProcessTask(w, t)
  \/ \E w \in Workers : WorkerIndexStat(w)
  \/ \E w \in Workers : WorkerIndexUnchanged(w)
  \/ \E w \in Workers : WorkerIndexExtract(w)
  \/ \E w \in Workers : WorkerIndexUpsertMeta(w)
  \/ \E w \in Workers : WorkerIndexUpsertContent(w)
  \/ \E w \in Workers : WorkerDeleteGet(w)
  \/ \E w \in Workers : WorkerDeleteMeta(w)
  \/ \E w \in Workers : WorkerDeleteContent(w)
  \/ \E w \in Workers : WorkerDeleteMetaRetry(w)
  \/ \E w \in Workers : WorkerDeleteContentRetry(w)
  \/ \E w \in Workers : WorkerTaskDone(w)
  \/ \E p \in Paths : FsWrite(p)
  \/ \E p \in Paths : FsRemove(p)

SpecWorkers == InitWorkers /\ [][NextWorkers]_vars

(***************************************************************************)
(* _index_file on one file of any name, kind and size, with no other        *)
(* activity: the setting of the checks made before a file is read           *)
(***************************************************************************)
\* what can be at a path: nothing, a directory, or a file of one byte, of
\* exactly the limit of its class, or of one byte more
GateFiles(p) == {Missing(2), Directory(2)} \cup {RegularFile(sz, 2) : sz \in FileSizes(p) \cup {1}}

\* the paths _index_file can have written records for
Indexable == {p \in AllPaths : ~IsHiddenName(p)}

EmptyCollection == [id \in RecordIds |-> NoRecord]

\* the two collections after _index_file has indexed version f of path q
IndexedStore(q, f) ==
  <<Upsert(EmptyCollection, MetaId(FileHash(q)), <<"str", FileMetadata(q, f)>>, FileMetadata(q, f)),
    Upsert(EmptyCollection, ContentId(FileHash(q)), ExtractedText(q, f), FileMetadata(q, f))>>

\* the stores a task can find: empty, holding an older version of some
\* path, or holding the present version of the file
GateStores(p, f) ==
  {<<EmptyCollection, EmptyCollection>>}
  \cup {IndexedStore(q, RegularFile(1, 1)) : q \in Indexable}
  \cup (IF p \in Indexable /\ IndexGate(p, f) = "pass" THEN {IndexedStore(p, f)} ELSE {})

GateTasks ==
  {[task_type |-> tt, file_path |-> p, metadata |-> NoMoveMetadata] :
      tt \in {INDEX_FILE, UPDATE_FILE}, p \in AllPaths}

InitGate ==
  /\ QueueIdle /\ max_size = 0 /\ ProcInit /\ BatchInit /\ WatchInit /\ SearchInit
  /\ \E p \in AllPaths : \E f \in GateFiles(p) : \E st \in GateStores(p, f) :
       /\ fs = [x \in AllPaths |-> IF x = p THEN f ELSE Missing(0)]
       /\ metadata_collection = st[1]
       /\ content_collection = st[2]

NextGate ==
  \/ \E t \in GateTasks : ProcessTask(t)
  \/ IndexStat
  \/ IndexUnchanged
  \/ IndexExtract
  \/ IndexUpsertMeta
  \/ IndexUpsertContent
  \/ TaskDone

SpecGate == InitGate /\ [][NextGate]_vars

(***************************************************************************)
(* db/indexer.py : the Indexer with batching and its batch backup file     *)
(***************************************************************************)
\* batch_size of the Indexer (50 by default)
BatchSize == 2
\* the most entries the pending lists are followed to
MaxPending == 3
\* the signals a process is sent before it ends
MaxSignals == 2

others == <<qvars, tvars, hvars, pvars, wvars, schvars, cvars>>

\* _add_to_batch lines 407-411 and 415-419: one pending entry
MetadataEntry(md) == [document |-> <<"str", md>>, metadata |-> md, id |-> MetaId(md.file_id)]
ContentEntry(md, content) == [document |-> content, metadata |-> md, id |-> ContentId(md.file_id)]

\* collection.upsert(documents=[...], metadatas=[...], ids=[...]) of a list
RECURSIVE UpsertAll(_, _)
UpsertAll(coll, items) ==
  IF items = <<>> THEN coll
  ELSE UpsertAll(Upsert(coll, Head(items).id, Head(items).document, Head(items).metadata), Tail(items))

\* a backup that writes the newest metadata entry only, as an append log would
BackupBatch_LastOnly(file, pm, pc) ==
  IF pm = <<>> /\ pc = <<>> THEN NoFile
  ELSE [exists |-> TRUE, valid |-> TRUE, pending_metadata |-> SubSeq(pm, Len(pm), Len(pm)), pending_content |-> pc]

\* _backup_batch lines 493-512: what the file holds after the call
BackupBatch(file, pm, pc) ==
  IF pm = <<>> /\ pc = <<>> THEN NoFile
  ELSE [exists |-> TRUE, valid |-> TRUE, pending_metadata |-> pm, pending_content |-> pc]

\* the file a process leaves that is killed inside json.dump (line 509), after
\* open(..., 'w') has emptied it: json.load raises on it
TornFile == [exists |-> TRUE, valid |-> FALSE, pending_metadata |-> <<>>, pending_content |-> <<>>]

\* a recovery that leaves the file in place when it fails
AfterFailedRecovery_Keep(file) == file

\* _recover_from_crash lines 539-545: the except branch removes the file
AfterFailedRecovery(file) == NoFile

\* __init__ lines 41-55: a process starts and constructs its Indexer; the
\* recovery of line 55 comes before the collections of lines 57-82
IndexerInit ==
  /\ ipc = "down"
  /\ pending_metadata' = <<>>
  /\ pending_content' = <<>>
  /\ collections_bound' = FALSE
  /\ ipc' = "recover"
  /\ backup_found' = NoFile
  /\ flushed' = FALSE
  /\ UNCHANGED <<batch_backup_file, walk, fctx, svars, others>>
  /\ eflushes' = 0

\* __init__ lines 57-82: the client and the two collections
IndexerCollections ==
  /\ ipc = "collections"
  /\ collections_bound' = TRUE
  /\ ipc' = "constructed"
  /\ flushed' = FALSE
  /\ UNCHANGED <<pending_metadata, pending_content, batch_backup_file, walk, fctx, backup_found, svars, others>>
  /\ UNCHANGED eflushes

\* _recover_from_crash lines 516-531, up to the call of _flush_batch
RecoverFromCrash ==
  /\ ipc = "recover"
  /\ flushed' = FALSE
  /\ IF ~batch_backup_file.exists
       THEN /\ ipc' = "collections"
            /\ UNCHANGED <<pending_metadata, pending_content, batch_backup_file, fctx, backup_found>>
     ELSE IF ~batch_backup_file.valid
       THEN /\ backup_found' = batch_backup_file
            /\ batch_backup_file' = AfterFailedRecovery(batch_backup_file)
            /\ ipc' = "collections"
            /\ UNCHANGED <<pending_metadata, pending_content, fctx>>
       ELSE /\ backup_found' = batch_backup_file
            /\ pending_metadata' = batch_backup_file.pending_metadata
            /\ pending_content' = batch_backup_file.pending_content
            /\ IF batch_backup_file.pending_metadata # <<>> \/ batch_backup_file.pending_content # <<>>
                 THEN /\ ipc' = "flush_metadata"
                      /\ fctx' = "recover"
                      /\ UNCHANGED batch_backup_file
                 ELSE /\ ipc' = "collections"
                      /\ batch_backup_file' = NoFile
                      /\ UNCHANGED fctx
  /\ UNCHANGED <<collections_bound, walk, svars, others>>
  /\ UNCHANGED eflushes

\* the constructor has returned
IndexerReady ==
  /\ ipc = "constructed"
  /\ ipc' = "ready"
  /\ backup_found' = NoFile
  /\ flushed' = FALSE
  /\ UNCHANGED <<pending_metadata, pending_content, batch_backup_file, collections_bound, walk, fctx, svars, others>>
  /\ UNCHANGED eflushes

(* _flush_batch lines 424-456, in two steps: the metadata upsert and the   *)
(* content upsert. A collection that is not bound yet raises               *)
(* AttributeError; a bound one succeeds or raises.                         *)
FlushMetadata ==
  /\ ipc = "flush_metadata"
  /\ flushed' = FALSE
  /\ IF pending_metadata = <<>>
       THEN /\ ipc' = "flush_content"
            /\ UNCHANGED <<pending_metadata, metadata_collection>>
       ELSE \E ok \in {b \in BOOLEAN : b => collections_bound} :
              IF ok
                THEN /\ metadata_collection' = UpsertAll(metadata_collection, pending_metadata)
                     /\ pending_metadata' = <<>>
                     /\ ipc' = "flush_content"
                ELSE /\ ipc' = "flush_raised"
                     /\ UNCHANGED <<pending_metadata, metadata_collection>>
  /\ UNCHANGED <<pending_content, batch_backup_file, collections_bound, walk, fctx, backup_found, fs, content_collection, others>>
  /\ UNCHANGED eflushes

FlushContent ==
  /\ ipc = "flush_content"
  /\ flushed' = FALSE
  /\ IF pending_content = <<>>
       THEN /\ ipc' = "flush_returned"
            /\ UNCHANGED <<pending_content, content_collection>>
       ELSE \E ok \in {b \in BOOLEAN : b => collections_bound} :
              IF ok
                THEN /\ content_collection' = UpsertAll(content_collection, pending_content)
                     /\ pending_content' = <<>>
                     /\ ipc' = "flush_returned"
                ELSE /\ ipc' = "flush_raised"
                     /\ UNCHANGED <<pending_content, content_collection>>
  /\ UNCHANGED <<pending_metadata, batch_backup_file, collections_bound, walk, fctx, backup_found, fs, metadata_collection, others>>
  /\ UNCHANGED eflushes

\* what the caller does once _flush_batch has returned:
\*   _recover_from_crash line 537 and _emergency_flush lines 555-556 remove
\*   the backup file (after the emergency flush the process ends);
\*   index_file line 332 and index_directory line 487 go on
FlushReturned ==
  /\ ipc = "flush_returned"
  /\ flushed' = TRUE
  /\ fctx' = "none"
  /\ ipc' = CASE fctx = "recover" -> "collections"
              [] fctx = "index_file" -> "walk"
              [] fctx = "index_directory" -> "ready"
              [] fctx = "emergency" -> "down"
  /\ batch_backup_file' = IF fctx \in {"recover", "emergency"} THEN NoFile ELSE batch_backup_file
  /\ collections_bound' = (fctx # "emergency" /\ collections_bound)
  /\ walk' = IF fctx = "emergency" THEN <<>> ELSE walk
  /\ UNCHANGED <<pending_metadata, pending_content, backup_found, svars, others>>
  /\ eflushes' = IF fctx = "emergency" THEN 0 ELSE eflushes

\* what the caller does with an exception of _flush_batch:
\*   _recover_from_crash lines 539-545 remove the backup file;
\*   index_file lines 353-356 return False; index_directory lets it out of
\*   its finally block; _emergency_flush lines 558-559 print it and the
\*   process ends, its memory with it
FlushRaised ==
  /\ ipc = "flush_raised"
  /\ flushed' = FALSE
  /\ fctx' = "none"
  /\ ipc' = CASE fctx = "recover" -> "collections"
              [] fctx = "index_file" -> "walk"
              [] fctx = "index_directory" -> "ready"
              [] fctx = "emergency" -> "down"
  /\ batch_backup_file' = IF fctx = "recover" THEN AfterFailedRecovery(batch_backup_file) ELSE batch_backup_file
  /\ walk' = IF fctx \in {"index_directory", "emergency"} THEN <<>> ELSE walk
  /\ collections_bound' = (fctx # "emergency" /\ collections_bound)
  /\ pending_metadata' = IF fctx = "emergency" THEN <<>> ELSE pending_metadata
  /\ pending_content' = IF fctx = "emergency" THEN <<>> ELSE pending_content
  /\ UNCHANGED <<backup_found, svars, others>>
  /\ eflushes' = IF fctx = "emergency" THEN 0 ELSE eflushes

\* the regular files os.walk yields, in the order it yields them
WalkOrder == <<PathA, PathB>>
FilesOf(f) == SelectSeq(WalkOrder, LAMBDA p : f[p].kind = "file")

\* cleanup_deleted_files lines 371-400: the paths with a metadata record
\* whose file no longer exists
DeletedPaths(coll, f) == {p \in Paths : \E id \in RecordIds : coll[id] # NoRecord /\ coll[id].metadata.path = p /\ f[p].kind = "missing"}

\* Indexer.delete_file lines 358-369 for every path of a set
DeleteAll(coll, ids) == [id \in RecordIds |-> IF id \in ids THEN NoRecord ELSE coll[id]]

\* index_directory lines 458-471 with use_batch=True: the optional cleanup
\* (a delete_file that raises leaves its later delete undone), then the walk
IndexDirectory ==
  /\ ipc = "ready"
  /\ flushed' = FALSE
  /\ \E cleanup_deleted \in BOOLEAN :
       IF cleanup_deleted
         THEN \E Dm \in SUBSET DeletedPaths(metadata_collection, fs) : \E Dc \in SUBSET Dm :
                /\ metadata_collection' = DeleteAll(metadata_collection, {MetaId(FileHash(p)) : p \in Dm})
                /\ content_collection' = DeleteAll(content_collection, {ContentId(FileHash(p)) : p \in Dc})
         ELSE UNCHANGED <<metadata_collection, content_collection>>
  /\ walk' = FilesOf(fs)
  /\ ipc' = "walk"
  /\ UNCHANGED <<pending_metadata, pending_content, batch_backup_file, collections_bound, fctx, backup_found, fs, others>>
  /\ UNCHANGED eflushes

\* index_file lines 315-320: the stored modification time equals the file's
IndexerUnchanged(coll, md) ==
  LET stored == GetWhere(coll, md.file_id) IN
  stored # {} /\ (CHOOSE m \in stored : TRUE).modified_at = md.modified_at

\* index_file lines 271-309: the file is not a candidate for indexing
IndexerSkips(p, f) == f.kind # "file" \/ IsHiddenName(p) \/ ~WithinSizeLimit(f.size, Suffix(p))

\* index_directory lines 474-483: index_file(file_path, use_batch=True) for
\* the next file of the walk, with _add_to_batch and _backup_batch
IndexFile ==
  /\ ipc = "walk"
  /\ walk # <<>>
  /\ Len(pending_metadata) < MaxPending
  /\ flushed' = FALSE
  /\ walk' = Tail(walk)
  /\ LET p == Head(walk)
         md == FileMetadata(p, fs[p])
     IN \E lookup_ok \in BOOLEAN : \E content \in {ExtractedText(p, fs[p]), NoContent} :
          IF IndexerSkips(p, fs[p]) \/ ~lookup_ok \/ IndexerUnchanged(metadata_collection, md)
            THEN /\ ipc' = "walk"
                 /\ UNCHANGED <<pending_metadata, pending_content, batch_backup_file, fctx>>
            ELSE /\ pending_metadata' = Append(pending_metadata, MetadataEntry(md))
                 /\ pending_content' = IF content # NoContent
                                         THEN Append(pending_content, ContentEntry(md, content))
                                         ELSE pending_content
                 /\ batch_backup_file' = BackupBatch(batch_backup_file, pending_metadata', pending_content')
                 /\ IF Len(pending_metadata') >= BatchSize
                      THEN ipc' = "flush_metadata" /\ fctx' = "index_file"
                      ELSE ipc' = "walk" /\ UNCHANGED fctx
  /\ UNCHANGED <<collections_bound, backup_found, svars, others>>
  /\ UNCHANGED eflushes

\* the process is killed while _backup_batch writes the file for a new entry
IndexFileKilled ==
  /\ ipc = "walk"
  /\ walk # <<>>
  /\ Len(pending_metadata) < MaxPending
  /\ ~IndexerSkips(Head(walk), fs[Head(walk)])
  /\ ~IndexerUnchanged(metadata_collection, FileMetadata(Head(walk), fs[Head(walk)]))
  /\ batch_backup_file' = TornFile
  /\ ipc' = "down"
  /\ pending_metadata' = <<>>
  /\ pending_content' = <<>>
  /\ collections_bound' = FALSE
  /\ walk' = <<>>
  /\ fctx' = "none"
  /\ backup_found' = NoFile
  /\ flushed' = FALSE
  /\ UNCHANGED <<svars, others>>
  /\ eflushes' = 0

\* index_directory lines 484-488: the finally block flushes what remains
IndexDirectoryEnd ==
  /\ ipc = "walk"
  /\ walk = <<>>
  /\ ipc' = "flush_metadata"
  /\ fctx' = "index_directory"
  /\ flushed' = FALSE
  /\ UNCHANGED <<pending_metadata, pending_content, batch_backup_file, collections_bound, walk, backup_found, svars, others>>
  /\ UNCHANGED eflushes

\* _emergency_flush lines 547-559 at exit or from _signal_handler: with
\* nothing pending the process ends at once
EmergencyFlush ==
  /\ ipc \in {"ready", "walk"}
  /\ flushed' = FALSE
  /\ IF pending_metadata # <<>> \/ pending_content # <<>>
       THEN /\ ipc' = "flush_metadata"
            /\ fctx' = "emergency"
            /\ eflushes' = eflushes + 1
            /\ UNCHANGED <<collections_bound, walk>>
       ELSE /\ ipc' = "down"
            /\ collections_bound' = FALSE
            /\ walk' = <<>>
            /\ UNCHANGED <<fctx, eflushes>>
  /\ UNCHANGED <<pending_metadata, pending_content, batch_backup_file, backup_found, svars, others>>

\* _signal_handler lines 561-565 has no test of a flush in progress: the
\* handler of a signal runs inside the handler it interrupts.
\* SIGINT or SIGTERM arrives while the _flush_batch of _emergency_flush is
\* running: the new call of _emergency_flush flushes what is still pending
\* from the start; with nothing pending, sys.exit(0) ends the process
SignalInFlush ==
  /\ ipc \in {"flush_metadata", "flush_content"}
  /\ fctx = "emergency"
  /\ eflushes < MaxSignals
  /\ flushed' = FALSE
  /\ IF pending_metadata # <<>> \/ pending_content # <<>>
       THEN /\ ipc' = "flush_metadata"
            /\ eflushes' = eflushes + 1
            /\ UNCHANGED <<fctx, collections_bound, walk>>
       ELSE /\ ipc' = "down"
            /\ fctx' = "none"
            /\ eflushes' = 0
            /\ collections_bound' = FALSE
            /\ walk' = <<>>
  /\ UNCHANGED <<pending_metadata, pending_content, batch_backup_file, backup_found, svars, others>>

\* the process is killed: its memory is lost, the backup file and the store
\* stay as they are
IndexerCrash ==
  /\ ipc # "down"
  /\ ipc' = "down"
  /\ pending_metadata' = <<>>
  /\ pending_content' = <<>>
  /\ collections_bound' = FALSE
  /\ walk' = <<>>
  /\ fctx' = "none"
  /\ backup_found' = NoFile
  /\ flushed' = FALSE
  /\ UNCHANGED <<batch_backup_file, svars, others>>
  /\ eflushes' = 0

InitBatch == QueueIdle /\ max_size = 0 /\ StoreInit /\ ProcInit /\ BatchInit /\ WatchInit /\ SearchInit

NextBatch ==
  \/ IndexerInit
  \/ RecoverFromCrash
  \/ IndexerCollections
  \/ IndexerReady
  \/ FlushMetadata
  \/ FlushContent
  \/ FlushReturned
  \/ FlushRaised
  \/ IndexDirectory
  \/ IndexFile
  \/ IndexFileKilled
  \/ IndexDirectoryEnd
  \/ EmergencyFlush
  \/ SignalInFlush
  \/ IndexerCrash
  \/ \E p \in Paths : FsWrite(p)
  \/ \E p \in Paths : FsRemove(p)
  \/ \E p \in Paths : FsMkdir(p)

SpecBatch == InitBatch /\ [][NextBatch]_vars

(***************************************************************************)
(* filesystem/filechangehandler.py : FileChangeHandler                     *)
(* The observer thread hands the handler one event at a time; an event is  *)
(* timed by time.time() when its handler runs.                             *)
(***************************************************************************)
\* number of events the observer delivers
MaxEvents == 3

\* self.debounce_time
DebounceTime == 2

\* the seconds the model follows: events are delivered inside one debounce
\* window, at its end, and not after
MaxClock == DebounceTime + 1

\* the FileTask a handler builds
WatchTask(tt, p, md) == [task_type |-> tt, file_path |-> p, metadata |-> md]

\* self.file_processing_queue.add_task(task) with no other thread in the
\* queue: queue_manager.py lines 74-88, unlimited queue
QueueAdd(task) ==
  IF AddTaskRejects \/ ~QueueHasRoom
    THEN UNCHANGED <<queue, unfinished_tasks, stats, enqLog>>
    ELSE /\ queue' = Append(queue, task)
         /\ unfinished_tasks' = unfinished_tasks + 1
         /\ stats' = [stats EXCEPT !.total_added = @ + 1]
         /\ enqLog' = Append(enqLog, task)

QueueSame == UNCHANGED <<queue, unfinished_tasks, stats, enqLog>>
WatchFrame == UNCHANGED <<max_size, shutdown_event, tvars, deqLog, completions, raised, plate, wlate, svars, pvars, bvars, schvars, cvars>>

\* the event the observer delivers now, as the history records it, with the
\* time on_modified reads; an event its handler ignores (a directory, a path
\* that is not a file) leaves no trace
Event(kind, p, accepted, tasks) ==
  [kind |-> kind, path |-> p, time |-> IF kind = "modified" THEN clock ELSE 0,
   accepted |-> accepted, tasks |-> tasks]

CanDeliver == hpc = "idle" /\ Len(elog) < MaxEvents /\ clock < MaxClock

\* os.path.isfile(path)
IsFile(p) == fs[p].kind = "file"

\* a debounce window that still covers the 2nd second
Debounced_Inclusive(times, p, now) == p \in DOMAIN times /\ now - times[p] <= DebounceTime

\* on_modified lines 35-37: the path was recorded less than debounce_time ago
Debounced(times, p, now) == p \in DOMAIN times /\ now - times[p] < DebounceTime

\* an assignment that stamps every recorded path
DictSet_AllKeys(times, p, now) == [x \in DOMAIN times \cup {p} |-> now]

\* dict assignment: times[p] = now
DictSet(times, p, now) == [x \in DOMAIN times \cup {p} |-> IF x = p THEN now ELSE times[x]]

\* on_modified lines 32-39: the checks and the timestamp
OnModified(p, is_directory) ==
  /\ CanDeliver
  /\ IF is_directory \/ ~IsFile(p)
       THEN UNCHANGED <<last_modified_times, hpc, hpath, elog>>
     ELSE IF Debounced(last_modified_times, p, clock)
       THEN /\ elog' = Append(elog, Event("modified", p, FALSE, 0))
            /\ UNCHANGED <<last_modified_times, hpc, hpath>>
     ELSE /\ last_modified_times' = DictSet(last_modified_times, p, clock)
          /\ elog' = Append(elog, Event("modified", p, TRUE, 0))
          /\ hpc' = "wait"
          /\ hpath' = p
  /\ QueueSame /\ WatchFrame
  /\ UNCHANGED <<clock, busy>>

\* open(file_path, "rb"): fails for a missing path, a directory and a file
\* another program holds
CanOpen(p) == IsFile(p) /\ p \notin busy

\* __wait_until_file_is_closed lines 15-19 and on_modified lines 42-48: one
\* attempt to open the file; on success the Index task is added
WaitOpen ==
  /\ hpc = "wait"
  /\ IF CanOpen(hpath)
       THEN /\ QueueAdd(WatchTask(INDEX_FILE, hpath, NoMoveMetadata))
            /\ elog' = [elog EXCEPT ![Len(elog)].tasks = @ + 1]
            /\ hpc' = "idle"
            /\ hpath' = NoPath
       ELSE /\ hpc' = "sleep"
            /\ QueueSame
            /\ UNCHANGED <<elog, hpath>>
  /\ WatchFrame
  /\ UNCHANGED <<clock, last_modified_times, busy>>

\* __wait_until_file_is_closed lines 20-21: except IOError: time.sleep(1),
\* then the loop tries again
WaitSleep ==
  /\ hpc = "sleep"
  /\ clock' = IF clock < MaxClock THEN clock + 1 ELSE clock
  /\ hpc' = "wait"
  /\ QueueSame /\ WatchFrame
  /\ UNCHANGED <<last_modified_times, hpath, busy, elog>>

\* on_created lines 50-61: a second of sleep, then an Index task
OnCreated(p, is_directory) ==
  /\ CanDeliver
  /\ IF is_directory \/ ~IsFile(p)
       THEN QueueSame /\ UNCHANGED <<clock, elog>>
       ELSE /\ elog' = Append(elog, Event("created", p, TRUE, 1))
            /\ clock' = clock + 1
            /\ QueueAdd(WatchTask(INDEX_FILE, p, NoMoveMetadata))
  /\ WatchFrame
  /\ UNCHANGED <<last_modified_times, hpc, hpath, busy>>

\* on_moved lines 63-78
OnMoved(src, dest, is_directory) ==
  /\ CanDeliver
  /\ IF is_directory
       THEN QueueSame /\ UNCHANGED elog
       ELSE /\ elog' = Append(elog, Event("moved", dest, TRUE, 1))
            /\ QueueAdd(WatchTask(MOVE_FILE, dest, [old_path |-> src, new_path |-> dest]))
  /\ WatchFrame
  /\ UNCHANGED <<clock, last_modified_times, hpc, hpath, busy>>

\* on_deleted lines 80-89
OnDeleted(p, is_directory) ==
  /\ CanDeliver
  /\ IF is_directory
       THEN QueueSame /\ UNCHANGED elog
       ELSE /\ elog' = Append(elog, Event("deleted", p, TRUE, 1))
            /\ QueueAdd(WatchTask(DELETE_FILE, p, NoMoveMetadata))
  /\ WatchFrame
  /\ UNCHANGED <<clock, last_modified_times, hpc, hpath, busy>>

\* a second passes
Tick ==
  /\ clock < MaxClock
  /\ clock' = clock + 1
  /\ QueueSame /\ WatchFrame
  /\ UNCHANGED <<last_modified_times, hpc, hpath, busy, elog>>

\* another program takes the file the handler waits for, or lets a file go
Hold(p) ==
  /\ hpc # "idle" /\ p = hpath
  /\ IsFile(p) /\ p \notin busy
  /\ busy' = busy \cup {p}
  /\ QueueSame /\ WatchFrame
  /\ UNCHANGED <<clock, last_modified_times, hpc, hpath, elog>>

Release(p) ==
  /\ p \in busy
  /\ busy' = busy \ {p}
  /\ QueueSame /\ WatchFrame
  /\ UNCHANGED <<clock, last_modified_times, hpc, hpath, elog>>

\* one or two files are in the watched directory
InitWatch ==
  /\ QueueIdle /\ max_size = 0 /\ ProcInit /\ BatchInit /\ WatchInit /\ SearchInit
  /\ metadata_collection = EmptyCollection
  /\ content_collection = EmptyCollection
  /\ \E f \in {Missing(0), RegularFile(1, 0)} : fs = [p \in Paths |-> IF p = PathA THEN RegularFile(1, 0) ELSE f]

NextWatch ==
  \/ \E p \in Paths : \E d \in BOOLEAN : OnModified(p, d)
  \/ WaitOpen
  \/ WaitSleep
  \/ \E p \in Paths : \E d \in BOOLEAN : OnCreated(p, d)
  \/ \E s \in Paths : \E t \in Paths \ {s} : \E d \in BOOLEAN : OnMoved(s, t, d)
  \/ \E p \in Paths : \E d \in BOOLEAN : OnDeleted(p, d)
  \/ Tick
  \/ \E p \in Paths : Hold(p)
  \/ \E p \in Paths : Release(p)
  \/ \E p \in Paths : FsRemove(p)

SpecWatch == InitWatch /\ [][NextWatch]_vars

\* the observer thread is scheduled: an attempt to open and a sleep that can
\* happen do happen
SpecWatchFair == SpecWatch /\ WF_vars(WaitOpen) /\ WF_vars(WaitSleep)

(***************************************************************************)
(* db/searcher.py : Searcher.search, and its callers in main.py            *)
(* Distances are in hundredths, similarities in millionths and weighted    *)
(* scores in hundred-millionths.                                           *)
(***************************************************************************)
\* largest limit a request carries
MaxLimit == 2

\* the file identities the store holds records for
FileIds == {"f1", "f2", "f3"}
\* the distances the store reports for a hit
Distances == {10, 40, 120}

\* Searcher.metadata_weight, Searcher.content_weight, in hundredths
MetadataWeight == 62
ContentWeight == 38

\* normalize_cosine_distance lines 15-21: 1 / (1 + exp(10 * (n - 0.86))),
\* at the distances 0.00, 0.10, 0.40, 0.86, 1.00, 1.20 and 2.00
NormalizeTable == [d \in {0, 10, 40, 86, 100, 120, 200} |->
  CASE d = 0 -> 999816 [] d = 10 -> 999500 [] d = 40 -> 990048 [] d = 86 -> 500000
    [] d = 100 -> 197816 [] d = 120 -> 32295 [] d = 200 -> 11]

\* a similarity that grows with the distance
NormalizeCosineDistance_Rising(n) == 1000000 - NormalizeTable[n]

NormalizeCosineDistance(n) == NormalizeTable[n]

\* collection.query: the hits of one collection, nearest first, each id once
HitLists(n) ==
  {h \in UNION {[1..k -> FileIds \X Distances] : k \in 0..n} :
     /\ \A i, j \in 1..Len(h) : i < j => (h[i][1] # h[j][1] /\ h[i][2] <= h[j][2])}

\* the ids a collection gives its records
MetaHitId(f) == <<"meta-", f>>
ContentHitId(f) == <<"content-", f>>
\* file_id[5:] / file_id[8:] : the identity without its prefix
StripPrefix(id) == id[2]

\* the position of key k in an insertion-ordered dict, 0 if absent
KeyIndex(dict, k) ==
  IF \E i \in 1..Len(dict) : dict[i].file_id = k
    THEN CHOOSE i \in 1..Len(dict) : dict[i].file_id = k
    ELSE 0

\* weighted_results[k] = v : a new key goes last, an old one keeps its place
DictPut(dict, k, v) ==
  IF KeyIndex(dict, k) = 0 THEN Append(dict, v) ELSE [dict EXCEPT ![KeyIndex(dict, k)] = v]

\* __merge_results lines 142-150: the entry of a metadata hit
MetadataEntryOf(f, distance) ==
  [file_id |-> f, metadata |-> <<"file_metadata", f>>,
   raw_metadata_distance |-> distance,
   metadata_score |-> NormalizeCosineDistance(distance) * MetadataWeight,
   raw_content_distance |-> 100,
   content_score |-> 0,
   total_score |-> NormalizeCosineDistance(distance) * MetadataWeight]

\* a content hit that replaces the entry of its identity
WithContent_Replace(result, distance) ==
  [result EXCEPT !.metadata_score = 0,
                 !.raw_metadata_distance = 100,
                 !.content_score = NormalizeCosineDistance(distance) * ContentWeight,
                 !.raw_content_distance = distance,
                 !.total_score = NormalizeCosineDistance(distance) * ContentWeight]

\* lines 165-170: a content hit for an identity that has an entry
WithContent(result, distance) ==
  [result EXCEPT !.content_score = NormalizeCosineDistance(distance) * ContentWeight,
                 !.raw_content_distance = distance,
                 !.total_score = result.metadata_score + NormalizeCosineDistance(distance) * ContentWeight]

\* lines 173-181: the entry of a content hit without a metadata hit
ContentEntryOf(f, distance) ==
  [file_id |-> f, metadata |-> <<"file_content", f>>,
   raw_metadata_distance |-> 100,
   metadata_score |-> 0,
   raw_content_distance |-> distance,
   content_score |-> NormalizeCosineDistance(distance) * ContentWeight,
   total_score |-> NormalizeCosineDistance(distance) * ContentWeight]

\* lines 131-150: the loop over the metadata hits
RECURSIVE MergeMetadata(_, _)
MergeMetadata(dict, hits) ==
  IF hits = <<>> THEN dict
  ELSE MergeMetadata(DictPut(dict, StripPrefix(hits[1][1]), MetadataEntryOf(StripPrefix(hits[1][1]), hits[1][2])), Tail(hits))

\* lines 153-181: the loop over the content hits
RECURSIVE MergeContent(_, _)
MergeContent(dict, hits) ==
  IF hits = <<>> THEN dict
  ELSE LET f == StripPrefix(hits[1][1])
           i == KeyIndex(dict, f)
           v == IF i # 0 THEN WithContent(dict[i], hits[1][2]) ELSE ContentEntryOf(f, hits[1][2])
       IN MergeContent(DictPut(dict, f, v), Tail(hits))

\* an order that puts the lowest score first
Before_Ascending(a, b) == a.total_score < b.total_score

\* sorted(..., key=total_score, reverse=True): a goes before b
Before(a, b) == a.total_score > b.total_score

\* the stable sort: the first entry no other entry goes before, then the rest
RECURSIVE Sorted(_)
Sorted(s) ==
  IF s = <<>> THEN <<>>
  ELSE LET i == CHOOSE k \in 1..Len(s) :
                  /\ \A j \in 1..Len(s) : ~Before(s[j], s[k])
                  /\ \A j \in 1..(k - 1) : Before(s[k], s[j])
       IN <<s[i]>> \o Sorted(SubSeq(s, 1, i - 1) \o SubSeq(s, i + 1, Len(s)))

\* s[:n]
Slice(s, n) == SubSeq(s, 1, IF Len(s) < n THEN Len(s) ELSE n)

SearchFrame == UNCHANGED <<qvars, tvars, hvars, svars, pvars, bvars, wvars, cvars>>

\* search_endpoint lines 460-472 and Searcher.search lines 111-122: a request
\* with a limit arrives and both collections are queried for limit * 2 hits
SearchQuery ==
  /\ spc = "idle"
  /\ \E ok \in BOOLEAN :
       IF ok
         THEN /\ spc' = "merge"
              /\ UNCHANGED <<metadata_results, content_results>>
         ELSE /\ spc' = "raised"
              /\ metadata_results' = NoResults
              /\ content_results' = NoResults
  /\ UNCHANGED <<limit, weighted_results, sorted_results, response>>
  /\ SearchFrame

\* __merge_results lines 128-181
SearchMerge ==
  /\ spc = "merge"
  /\ weighted_results' = MergeContent(MergeMetadata(<<>>, metadata_results), content_results)
  /\ spc' = "sort"
  /\ UNCHANGED <<limit, metadata_results, content_results, sorted_results, response>>
  /\ SearchFrame

\* __merge_results lines 184-190
SearchSort ==
  /\ spc = "sort"
  /\ sorted_results' = Slice(Sorted(weighted_results), limit)
  /\ spc' = "returned"
  /\ UNCHANGED <<limit, metadata_results, content_results, weighted_results, response>>
  /\ SearchFrame

\* search_files_sync lines 311-316 and search_endpoint lines 474-496: the
\* results, or [] when search raised, go into a SearchResponse
SearchRespond ==
  /\ spc \in {"returned", "raised"}
  /\ response' = [status |-> 200, results |-> IF spc = "raised" THEN <<>> ELSE sorted_results]
  /\ spc' = IF spc = "raised" THEN "answered_raised" ELSE "answered"
  /\ UNCHANGED <<limit, metadata_results, content_results, weighted_results, sorted_results>>
  /\ SearchFrame

\* a request with its limit, and what the two collections hold for its query
InitSearch ==
  /\ QueueIdle /\ max_size = 0 /\ StoreInit /\ ProcInit /\ BatchInit /\ WatchInit
  /\ spc = "idle"
  /\ limit \in 1..MaxLimit
  /\ \E m \in HitLists(2 * limit) : metadata_results = [i \in 1..Len(m) |-> <<MetaHitId(m[i][1]), m[i][2]>>]
  /\ \E c \in HitLists(2 * limit) : content_results = [i \in 1..Len(c) |-> <<ContentHitId(c[i][1]), c[i][2]>>]
  /\ weighted_results = <<>>
  /\ sorted_results = <<>>
  /\ response = [status |-> 0, results |-> <<>>]

NextSearch ==
  \/ SearchQuery
  \/ SearchMerge
  \/ SearchSort
  \/ SearchRespond

SpecSearch == InitSearch /\ [][NextSearch]_vars

(***************************************************************************)
(* Properties of the queue and the worker loop (checked under SpecQueue)   *)
(***************************************************************************)
Ids(log) == {log[i].id : i \in 1..Len(log)}
Occurrences(log, t) == Cardinality({i \in 1..Len(log) : log[i].id = t})
NumTasks == Cardinality(Producers) * TasksPerThread
Held(t) == \E w \in Workers : wtask[w].id = t

\* C1: an add_task call begun after shutdown() returns False and its task
\* never enters the queue; a get_task call begun after shutdown() returns
\* None, also while tasks are still queued.
C1_ShutdownLatch ==
  /\ \A p \in Producers :
       plate[p].result # "none" =>
         /\ plate[p].result = "False"
         /\ plate[p].task.id \notin Ids(enqLog)
  /\ \A w \in Workers : wlate[w] \in {"none", "None"}

\* both kinds of late call have returned while a task enqueued before the
\* shutdown is still in the queue
C1_Witness ==
  /\ shutdown_event
  /\ queue # <<>>
  /\ \E p \in Producers : plate[p].result = "False"
  /\ \E w \in Workers : wlate[w] = "None"

ProducersDone == \A p \in Producers : pcount[p] = TasksPerThread /\ ppc[p] = "idle"
RECURSIVE SumCompletions(_)
SumCompletions(S) ==
  IF S = {} THEN 0 ELSE LET t == CHOOSE x \in S : TRUE IN completions[t] + SumCompletions(S \ {t})
\* the producers have returned and the consumers have completed N x M tasks
AllFinished == ProducersDone /\ SumCompletions(TaskIds) = NumTasks

\* C3: with an unbounded queue and no shutdown, no task is delivered twice
\* and only enqueued tasks are delivered; once the producers are done and
\* N x M completions were made, total_added = N x M, every task was delivered
\* and completed exactly once, the queue is empty, and total_processed is
\* N x M less the completions reported as failed (N x M when none failed).
C3_ProducerConsumer ==
  (max_size = 0 /\ ~shutdown_event) =>
    /\ \A t \in TaskIds : Occurrences(deqLog, t) <= 1
    /\ Ids(deqLog) \subseteq Ids(enqLog)
    /\ AllFinished =>
         /\ stats.total_added = NumTasks
         /\ stats.total_processed + stats.total_failed = NumTasks
         /\ stats.total_failed = 0 => stats.total_processed = NumTasks
         /\ queue = <<>>
         /\ \A t \in TaskIds : Occurrences(deqLog, t) = 1 /\ completions[t] = 1

\* all N x M tasks went through two producers and were completed as successes
C3_Witness ==
  /\ max_size = 0 /\ ~shutdown_event
  /\ AllFinished
  /\ stats.total_processed = NumTasks
  /\ queue = <<>>

\* C4: get_task hands tasks out in the order add_task put them in: the
\* dequeue history is a prefix of the enqueue history and the queue holds the
\* rest, whatever the task types.
C4_Fifo ==
  /\ Len(deqLog) <= Len(enqLog)
  /\ deqLog = SubSeq(enqLog, 1, Len(deqLog))
  /\ queue = SubSeq(enqLog, Len(deqLog) + 1, Len(enqLog))

\* a Delete task enqueued before an Index task came out before it
C4_Witness ==
  /\ Len(deqLog) >= 2
  /\ deqLog[1].task_type = DELETE_FILE
  /\ deqLog[2].task_type = INDEX_FILE

\* a worker's task_completed call for the task it holds
Completes(w) == wpc[w] = "complete" /\ wpc'[w] # "complete"
\* the workers whose call reports the outcome in S
CompletingWith(S) == {w \in Workers : Completes(w) /\ wstatus[w] \in S}

C11_Step ==
  /\ stats'.total_processed - stats.total_processed = Cardinality(CompletingWith({SUCCESS, SKIPPED, HIDDEN, LARGE}))
  /\ stats'.total_failed - stats.total_failed = Cardinality(CompletingWith({FAILURE, "raised"}))

C12_Step ==
  /\ \A t \in raised : t \notin Ids(queue)
  /\ \A w \in Workers :
       /\ (wpc[w] = "process" /\ wstatus'[w] = "raised") =>
            /\ processing_stats' = [processing_stats EXCEPT ![FAILURE] = @ + 1]
            /\ wpc'[w] = "complete"
            /\ wtask'[w] = wtask[w]
       /\ (Completes(w) /\ wstatus[w] = "raised") =>
            /\ stats' = [stats EXCEPT !.total_failed = @ + 1]
            /\ completions' = [completions EXCEPT ![wtask[w].id] = @ + 1]
            /\ queue' = queue /\ enqLog' = enqLog
            /\ wpc'[w] = "loop"

AddReturnsFalse(p) ==
  \/ ppc[p] = "idle" /\ pcount'[p] # pcount[p] /\ ppc'[p] = "idle"
  \/ ppc[p] = "put" /\ ppc'[p] = "idle"
\* an add_task call of producer p returns True
AddReturnsTrue(p) == ppc[p] = "add_stats" /\ ppc'[p] = "idle"

C13_Step ==
  \A p \in Producers :
    /\ AddReturnsFalse(p) => shutdown_event
    /\ AddReturnsTrue(p) => ptask[p].task.id \in Ids(enqLog)

\* C13: for every max_size, an add_task call returns False only if the queue
\* has been shut down, and a call that returns True has enqueued its task.
C13_FalseIffShutdown == [][C13_Step]_vars

C14_Step ==
  /\ IsShutdown => IsShutdown'
  /\ Shutdown => IsShutdown'

\* C14: is_shutdown() is False on a new queue, True once shutdown() has been
\* called, and no operation of the queue, the producers or the workers makes
\* it False again.
C14_LatchNeverReset == ~IsShutdown /\ [][C14_Step]_vars

\* the queue was shut down with a task in it, every worker has since left its
\* loop, and the latch is still set
C14_Witness ==
  /\ IsShutdown
  /\ queue # <<>>
  /\ \A w \in Workers : wpc[w] = "stopped"
  /\ \A p \in Producers : pcount[p] = TasksPerThread /\ ppc[p] = "idle"

\* no add_task, get_task or task_completed call is between its steps
NoQueueOpInFlight ==
  /\ \A p \in Producers : ppc[p] = "idle"
  /\ \A w \in Workers : wpc[w] \in {"loop", "get_task", "process", "stopped"}
\* tasks accepted by add_task, and those of them that are completed
Added == Ids(enqLog)
Completed == {t \in Added : completions[t] > 0}

\* C15: with no queue operation in flight, get_progress() has total_added =
\* the accepted add_task calls, queue_size = the tasks added and not yet
\* dequeued, is_processing true exactly when an added task is not yet
\* completed, and progress_percentage 100 when every added task is completed.
C15_ProgressReflectsState ==
  NoQueueOpInFlight =>
    /\ GetProgress.total_added = Cardinality(Added)
    /\ GetProgress.total_processed + GetProgress.total_failed = Cardinality(Completed)
    /\ GetProgress.is_processing <=> (Completed # Added)
    /\ (Added # {} /\ Completed = Added) => GetProgress.progress_percentage = 100
    /\ "queue_size" \in DOMAIN GetProgress
    /\ GetProgress.queue_size = Len(queue)

(***************************************************************************)
(* Properties of the FileProcessor (checked under SpecProc)                *)
(***************************************************************************)
Store == <<metadata_collection, content_collection>>
MetaOf(st, p) == st[1][MetaId(FileHash(p))]
ContentOf(st, p) == st[2][ContentId(FileHash(p))]
InStore(st, p) == MetaOf(st, p) # NoRecord \/ ContentOf(st, p) # NoRecord
IsIndexTask == ftask.task_type = INDEX_FILE
\* the task got past the existence, name and size checks and took the
\* metadata of its file
TookMetadata == fl.metadata # NoMetadata

\* C7: an Index task that returns Success leaves a metadata record carrying
\* the file's modification time; an Index task that finds such a record
\* (the file's modification time is unchanged, the lookup works) returns
\* Skipped and leaves both collections exactly as they were when it began.
C7_IndexTwice ==
  (fpc = "done" /\ IsIndexTask) =>
    /\ fl.status = SUCCESS =>
         /\ MetaOf(Store, ftask.file_path) # NoRecord
         /\ MetaOf(Store, ftask.file_path).metadata.modified_at = fl.metadata.modified_at
    /\ ( /\ TookMetadata
         /\ ~fl.raised
         /\ MetaOf(start_store, ftask.file_path) # NoRecord
         /\ MetaOf(start_store, ftask.file_path).metadata.modified_at = fl.metadata.modified_at )
       => (fl.status = SKIPPED /\ Store = start_store)

\* the second Index task of a file that was indexed with its content
C7_Witness ==
  /\ fpc = "done" /\ IsIndexTask
  /\ fl.status = SKIPPED
  /\ ContentOf(Store, ftask.file_path) # NoRecord
  /\ MetaOf(Store, ftask.file_path).metadata.modified_at = fs[ftask.file_path].mtime
  /\ Store = start_store

\* C8 (as claimed): a Delete task that returns Success leaves neither the
\* metadata record nor the content record of its path in the store, and a
\* Delete for a path without records returns Success and changes nothing.
C8_DeleteRemovesBoth ==
  (fpc = "done" /\ ftask.task_type = DELETE_FILE) =>
    /\ fl.status = SUCCESS => ~InStore(Store, ftask.file_path)
    /\ (~InStore(start_store, ftask.file_path) /\ ~fl.raised) =>
         (fl.status = SUCCESS /\ Store = start_store)

\* C9 (as claimed): a Move task whose indexing of the new path returned
\* Failure, or whose delete failed, does not return Success.
C9_MoveFailsWhenIndexFails ==
  (fpc = "done" /\ ftask.task_type = MOVE_FILE /\ fl.status = SUCCESS) =>
    (fl.delete_success /\ fl.index_status # FAILURE)

DeletePcs == {"delete_get", "delete_meta", "delete_content", "delete_meta_x", "delete_content_x"}
IndexPcs == {"index_stat", "index_unchanged", "index_extract", "upsert_meta", "upsert_content"}
BeforeUpsertPcs == {"index_stat", "index_unchanged", "index_extract", "upsert_meta"}
OldPath == ftask.metadata.old_path
NewPath == ftask.metadata.new_path
InMove == ftask.task_type = MOVE_FILE /\ fpc \notin {"idle", "done"}
\* the delete of the old path removed its records and the indexing of the
\* new path has not started
BetweenMoveSteps ==
  /\ InMove /\ fl.step = 2 /\ fpc = "index_stat"
  /\ fl.delete_success
  /\ MetaOf(start_store, OldPath) # NoRecord

C10_Step ==
  InMove =>
    /\ fl.step = 1 => (fpc \in DeletePcs /\ MetaOf(Store, NewPath) = MetaOf(start_store, NewPath)
                                         /\ ContentOf(Store, NewPath) = ContentOf(start_store, NewPath))
    /\ fl.step = 2 =>
         /\ fpc \in IndexPcs
         /\ (fl.delete_success /\ MetaOf(start_store, OldPath) # NoRecord) => ~InStore(Store, OldPath)
         /\ fpc \in BeforeUpsertPcs => MetaOf(Store, NewPath) = MetaOf(start_store, NewPath)
         /\ fpc \in BeforeUpsertPcs => ContentOf(Store, NewPath) = ContentOf(start_store, NewPath)
    /\ (BetweenMoveSteps /\ fpc' = "idle" /\ ~InStore(start_store, NewPath)) =>
         (~InStore(Store', OldPath) /\ ~InStore(Store', NewPath))

Records(coll) == {<<id, coll[id]>> : id \in {i \in RecordIds : coll[i] # NoRecord}}
\* every record of coll is stored under prefix + identity(its path)
KeyedBy(coll, prefix) ==
  \A r \in Records(coll) :
    /\ r[2].metadata.path \in AllPaths
    /\ r[2].metadata.file_id = FileHash(r[2].metadata.path)
    /\ r[1] = <<prefix, r[2].metadata.file_id>>
OnePerPath(coll) ==
  \A r1, r2 \in Records(coll) : r1[2].metadata.path = r2[2].metadata.path => r1 = r2
\* the paths a task names
TaskPaths == {ftask.file_path, ftask.metadata.old_path, ftask.metadata.new_path}

\* C20: at every moment each collection holds at most one record per path,
\* every record of the metadata collection is stored under "meta-" +
\* identity(its path) and every record of the content collection under
\* "content-" + identity(its path), and a finished task has left the records
\* of every path it does not name as they were (another path is another
\* identity).
C20_OneRecordPerPath ==
  /\ KeyedBy(metadata_collection, "meta-") /\ OnePerPath(metadata_collection)
  /\ KeyedBy(content_collection, "content-") /\ OnePerPath(content_collection)
  /\ fpc = "done" =>
       \A q \in Paths \ TaskPaths :
         MetaOf(Store, q) = MetaOf(start_store, q) /\ ContentOf(Store, q) = ContentOf(start_store, q)

\* a Move task has returned Success: the records of the old path are gone
\* and the file is recorded under the identity of its new path
C20_Witness ==
  /\ fpc = "done" /\ ftask.task_type = MOVE_FILE /\ fl.status = SUCCESS
  /\ MetaOf(start_store, OldPath) # NoRecord
  /\ ~InStore(Store, OldPath)
  /\ MetaOf(Store, NewPath).metadata.path = NewPath
  /\ ContentOf(Store, NewPath).metadata.path = NewPath

(***************************************************************************)
(* Properties of _index_file's checks (checked under SpecGate, where the   *)
(* file does not change while it is processed)                             *)
(***************************************************************************)
IndexOrUpdateDone == fpc = "done" /\ ftask.task_type \in {INDEX_FILE, UPDATE_FILE}
TaskFile == fs[ftask.file_path]
StartsHidden == ftask.file_path.name[1] \in {".", "__", "~$"}

\* C16: an Index or Update task whose path is a directory or does not exist
\* returns Failure, whatever the name of the path, and writes nothing.
C16_MissingIsFailure ==
  (IndexOrUpdateDone /\ TaskFile.kind # "file") =>
    (fl.status = FAILURE /\ Store = start_store)

\* an Update task for a missing path with a hidden name has returned Failure
C16_Witness ==
  /\ IndexOrUpdateDone /\ ftask.task_type = UPDATE_FILE
  /\ TaskFile.kind = "missing"
  /\ StartsHidden
  /\ fl.status = FAILURE

\* C17: an Index or Update task for an existing regular file whose name
\* starts with ".", "__" or "~$" returns Hidden and leaves the store as it
\* was, whatever the size of the file and the contents of the store.
C17_HiddenName ==
  (IndexOrUpdateDone /\ TaskFile.kind = "file" /\ StartsHidden) =>
    (fl.status = HIDDEN /\ Store = start_store)

\* an office lock file larger than its size limit was found Hidden while
\* the store held records of another file
C17_Witness ==
  /\ IndexOrUpdateDone
  /\ ftask.file_path = PathLock
  /\ TaskFile.kind = "file" /\ TaskFile.size = 20000001
  /\ fl.status = HIDDEN
  /\ \E q \in Indexable : InStore(Store, q)

\* the size limit the claim gives for the extension of the task's path
ClaimedLimit ==
  LET name == ftask.file_path.name
      ext == IF Len(name) >= 2 THEN name[Len(name)] ELSE "" IN
  IF ext = ".pdf" THEN 50000000
  ELSE IF ext \in {".docx", ".xlsx", ".pptx"} THEN 20000000
  ELSE IF ext \in {".txt", ".md", ".py", ".js", ".html", ".css"} THEN 5000000
  ELSE 10000000

\* C18: for an existing regular file without a hidden name, an Index or
\* Update task returns TooLarge exactly when the size of the file is
\* strictly greater than the limit of its extension class; a file of exactly
\* the limit is not TooLarge; a TooLarge task writes nothing.
C18_SizeGate ==
  (IndexOrUpdateDone /\ TaskFile.kind = "file" /\ ~StartsHidden) =>
    /\ fl.status = LARGE <=> TaskFile.size > ClaimedLimit
    /\ fl.status = LARGE => Store = start_store

\* a .pdf file of exactly 50,000,000 bytes was indexed with Success
C18_Witness ==
  /\ IndexOrUpdateDone /\ ftask.task_type = INDEX_FILE
  /\ ftask.file_path = PathB
  /\ TaskFile.kind = "file" /\ TaskFile.size = 50000000
  /\ fl.status = SUCCESS
  /\ MetaOf(Store, PathB).metadata.size = 50000000

\* the task got as far as the extraction and the extraction gave no content
ExtractedNothing ==
  /\ IndexOrUpdateDone /\ TookMetadata
  /\ fl.status # SKIPPED
  /\ fl.content = NoContent

\* C19: an Index or Update task whose extraction gave no content (no
\* extractor for the format, or the extractor failed) writes no content
\* record; it returns Success with the metadata record of the file upserted,
\* and returns Failure only if a store call raised, the metadata collection
\* then being as it was.
C19_NoContentStillIndexed ==
  ExtractedNothing =>
    /\ content_collection = start_store[2]
    /\ fl.status \in {SUCCESS, FAILURE}
    /\ fl.status = SUCCESS =>
         MetaOf(Store, ftask.file_path) = [document |-> <<"str", fl.metadata>>, metadata |-> fl.metadata]
    /\ fl.status = FAILURE => (fl.raised /\ metadata_collection = start_store[1])

\* a .bin file, for which there is no extractor, was indexed by its metadata
\* alone
C19_Witness ==
  /\ ExtractedNothing
  /\ ftask.file_path = PathBin
  /\ fl.status = SUCCESS
  /\ MetaOf(Store, PathBin).metadata.modified_at = TaskFile.mtime
  /\ ContentOf(Store, PathBin) = NoRecord

(***************************************************************************)
(* Properties of the batched Indexer (checked under SpecBatch)             *)
(***************************************************************************)
\* C5: when a new Indexer has been constructed and its constructor found the
\* batch backup file, every pending metadata and content entry of the file
\* is in the store and the file is gone
C5_RecoveryReplaysBackup ==
  (ipc = "constructed" /\ backup_found.exists) =>
    /\ UpsertAll(metadata_collection, backup_found.pending_metadata) = metadata_collection
    /\ UpsertAll(content_collection, backup_found.pending_content) = content_collection
    /\ ~batch_backup_file.exists

\* C6: when _flush_batch has returned normally, both pending lists are empty
\* and the backup file does not exist; so too once a batched index_directory
\* has finished
C6_FlushRemovesBackup ==
  flushed => (pending_metadata = <<>> /\ pending_content = <<>> /\ ~batch_backup_file.exists)

(***************************************************************************)
(* Update tasks and Index tasks (checked under SpecGate)                   *)
(***************************************************************************)
\* what a run of _index_file on file f at path p can return and leave in the
\* store st = <<metadata, content>>: the status, whether a store call raised,
\* and the two collections
IndexOutcomes(p, f, st) ==
  IF IndexGate(p, f) # "pass" THEN {<<IndexGate(p, f), FALSE, st[1], st[2]>>}
  ELSE
    LET md == FileMetadata(p, f)
        same == FileUnchanged(st[1], md.file_id, md.modified_at)
        m2 == Upsert(st[1], MetaId(md.file_id), <<"str", md>>, md)
        c2 == Upsert(st[2], ContentId(md.file_id), ExtractedText(p, f), md)
        lookups == {TRUE} \cup (IF same THEN {} ELSE {FALSE})
    IN (IF same THEN {<<SKIPPED, FALSE, st[1], st[2]>>} ELSE {})
       \cup {<<FAILURE, TRUE, st[1], st[2]>>}
       \cup {<<SUCCESS, r, m2, st[2]>> : r \in lookups}
       \cup (IF HasExtractor(p)
             THEN {<<FAILURE, TRUE, m2, st[2]>>} \cup {<<SUCCESS, r, m2, c2>> : r \in lookups}
             ELSE {})

TaskOutcome == <<fl.status, fl.raised, metadata_collection, content_collection>>

\* C21: an Update task is processed as an Index task for the same path: when
\* process_task returns for either type, the status and the contents of both
\* collections are among the outcomes of _index_file for that path, file and
\* starting store, which do not depend on the task type.
C21_UpdateAsIndex ==
  (fpc = "done" /\ ftask.task_type \in {INDEX_FILE, UPDATE_FILE}) =>
    TaskOutcome \in IndexOutcomes(ftask.file_path, fs[ftask.file_path], start_store)

\* an Update task for a file with a hidden name has returned HIDDEN, which an
\* Index task returns for it and no other path through process_task does
C21_Witness ==
  /\ fpc = "done" /\ ftask.task_type = UPDATE_FILE
  /\ fl.status = HIDDEN
  /\ IndexOutcomes(ftask.file_path, fs[ftask.file_path], start_store) = {TaskOutcome}

(***************************************************************************)
(* Properties of the watcher's handlers (checked under SpecWatch)          *)
(***************************************************************************)
Modifies == {i \in 1..Len(elog) : elog[i].kind = "modified"}
\* the handler call for event i has returned
Returned(i) == i < Len(elog) \/ hpc = "idle"
\* an earlier modify event for the same path, less than 2 seconds before
RecentModify(i) ==
  \E j \in Modifies : j < i /\ elog[j].path = elog[i].path /\ elog[i].time - elog[j].time < DebounceTime

RecentAccepted(i) ==
  \E j \in Modifies : j < i /\ elog[j].accepted /\ elog[j].path = elog[i].path
                         /\ elog[i].time - elog[j].time < DebounceTime

C23_ModifyReturns == (hpc = "wait") ~> (hpc = "idle")

(***************************************************************************)
(* Properties of the search (checked under SpecSearch)                     *)
(***************************************************************************)
SearchReturned == spc \in {"returned", "answered"}
Merged == spc \in {"sort", "returned", "answered"}
\* the hit of identity f in a collection's results: its distance, or -1
HitDistance(results, f) ==
  IF \E i \in 1..Len(results) : StripPrefix(results[i][1]) = f
    THEN results[CHOOSE i \in 1..Len(results) : StripPrefix(results[i][1]) = f][2]
    ELSE -1
HitIds(results) == [i \in 1..Len(results) |-> StripPrefix(results[i][1])]
IdsOf(entries) == [i \in 1..Len(entries) |-> entries[i].file_id]
\* the identities with a content hit and no metadata hit, in rank order
ContentOnly == SelectSeq(HitIds(content_results), LAMBDA f : HitDistance(metadata_results, f) = -1)

\* C24: search returns at most limit results, best total_score first and
\* none better left out; results of equal total_score are in the order in
\* which they entered the merge, which is the metadata hits in rank order
\* followed by the content-only hits in rank order.
C24_OrderedAndLimited ==
  SearchReturned =>
    /\ Len(sorted_results) <= limit
    /\ IdsOf(weighted_results) = HitIds(metadata_results) \o ContentOnly
    /\ \A i, j \in 1..Len(sorted_results) : i < j =>
         /\ sorted_results[i].total_score >= sorted_results[j].total_score
         /\ sorted_results[i].total_score = sorted_results[j].total_score =>
              KeyIndex(weighted_results, sorted_results[i].file_id) < KeyIndex(weighted_results, sorted_results[j].file_id)
    /\ \A k \in 1..Len(weighted_results) :
         (\A i \in 1..Len(sorted_results) : sorted_results[i] # weighted_results[k]) =>
           /\ Len(sorted_results) = limit
           /\ \A i \in 1..Len(sorted_results) :
                \/ sorted_results[i].total_score > weighted_results[k].total_score
                \/ /\ sorted_results[i].total_score = weighted_results[k].total_score
                   /\ KeyIndex(weighted_results, sorted_results[i].file_id) < k
    /\ spc = "answered" => response.results = sorted_results

\* three identities were merged, two of them with the same total score; the
\* two results returned are the best one and the first of the two equal ones
C24_Witness ==
  /\ spc = "answered" /\ limit = 2
  /\ Len(weighted_results) = 3 /\ Len(sorted_results) = 2
  /\ sorted_results[1] = weighted_results[3]
  /\ sorted_results[2] = weighted_results[1]
  /\ weighted_results[1].total_score = weighted_results[2].total_score

\* the entry an identity must have, given its hits
Expected(f) ==
  LET dm == HitDistance(metadata_results, f)
      dc == HitDistance(content_results, f) IN
  [metadata_score |-> IF dm = -1 THEN 0 ELSE NormalizeCosineDistance(dm) * MetadataWeight,
   content_score |-> IF dc = -1 THEN 0 ELSE NormalizeCosineDistance(dc) * ContentWeight]
Entries(entries, f) == {i \in 1..Len(entries) : entries[i].file_id = f}
IsHit(f) == HitDistance(metadata_results, f) # -1 \/ HitDistance(content_results, f) # -1

\* C25: the merge is keyed by file identity: an identity with a hit has one
\* entry, with the score of each collection that hit it and 0 for a
\* collection that did not; an identity without a hit has none; the results
\* are entries of the merge, each identity at most once, and all of them when
\* the limit does not cut any off.
C25_MergedByIdentity ==
  Merged =>
    \A f \in FileIds :
      /\ Cardinality(Entries(weighted_results, f)) = (IF IsHit(f) THEN 1 ELSE 0)
      /\ \A i \in Entries(weighted_results, f) :
           /\ weighted_results[i].metadata_score = Expected(f).metadata_score
           /\ weighted_results[i].content_score = Expected(f).content_score
      /\ SearchReturned =>
           /\ Cardinality(Entries(sorted_results, f)) <= 1
           /\ \A i \in Entries(sorted_results, f) : sorted_results[i] \in Range(weighted_results)
           /\ (IsHit(f) /\ Len(weighted_results) <= limit) => Entries(sorted_results, f) # {}

\* of three identities one was hit in both collections, one in the metadata
\* collection only and one in the content collection only; all three are in
\* the merge
C25_Witness ==
  /\ Merged
  /\ \E f, g, h \in FileIds :
       /\ HitDistance(metadata_results, f) # -1 /\ HitDistance(content_results, f) # -1
       /\ HitDistance(metadata_results, g) # -1 /\ HitDistance(content_results, g) = -1
       /\ HitDistance(metadata_results, h) = -1 /\ HitDistance(content_results, h) # -1
       /\ \A x \in {f, g, h} : Entries(weighted_results, x) # {}

\* C26: total_score = s(metadata distance) x 0.62 + s(content distance) x
\* 0.38 with 0 for a missing hit, where s falls as the distance grows and
\* stays within [0,1]; so every total is within [0,1], a content-only result
\* is at most 0.38, and an identity with metadata distance 0.4 and content
\* distance 1.2 is ranked before one with only a content hit at distance 0.1.
C26_ScoreFusion ==
  /\ \A d \in DOMAIN NormalizeTable :
       /\ NormalizeCosineDistance(d) \in 0..1000000
       /\ \A e \in DOMAIN NormalizeTable : d < e => NormalizeCosineDistance(d) > NormalizeCosineDistance(e)
  /\ MetadataWeight + ContentWeight = 100
  /\ Merged =>
       \A i \in 1..Len(weighted_results) :
         LET r == weighted_results[i] IN
           /\ r.total_score = Expected(r.file_id).metadata_score + Expected(r.file_id).content_score
           /\ r.total_score \in 0..100000000
           /\ HitDistance(metadata_results, r.file_id) = -1 => r.total_score <= 38000000
  /\ SearchReturned =>
       \A i, j \in 1..Len(weighted_results) :
         LET a == weighted_results[i]
             b == weighted_results[j] IN
           (/\ a.raw_metadata_distance = 40 /\ a.raw_content_distance = 120 /\ a.content_score # 0
            /\ b.metadata_score = 0 /\ b.raw_content_distance = 10
            /\ b \in Range(sorted_results))
             => /\ a \in Range(sorted_results)
                /\ \A x, y \in 1..Len(sorted_results) : (sorted_results[x] = a /\ sorted_results[y] = b) => x < y

\* the results hold an identity with metadata distance 0.4 and content
\* distance 1.2 before an identity with only a content hit at distance 0.1
C26_Witness ==
  /\ SearchReturned /\ Len(sorted_results) = 2
  /\ sorted_results[1].raw_metadata_distance = 40 /\ sorted_results[1].raw_content_distance = 120
  /\ sorted_results[1].total_score = 990048 * 62 + 32295 * 38
  /\ sorted_results[2].metadata_score = 0 /\ sorted_results[2].raw_content_distance = 10
  /\ sorted_results[2].total_score = 999500 * 38

\* C27: when the store query raised, the caller gets an error, not a
\* successful response with an empty result list
C27_StoreFailureIsError ==
  spc = "answered_raised" => (response.status # 200 /\ response.status # 0)

(***************************************************************************)
(* Properties of the batch backup file (checked under SpecBatch)           *)
(***************************************************************************)
\* the step appended an entry to the pending batch
Appended == Len(pending_metadata') > Len(pending_metadata) \/ Len(pending_content') > Len(pending_content)

\* C28: after every append to the pending batch the backup file exists and
\* its two lists are the two pending lists in memory, entry for entry, also
\* when earlier entries were flushed or restored in between.
C28_Step ==
  Appended =>
    /\ batch_backup_file'.exists
    /\ batch_backup_file'.pending_metadata = pending_metadata'
    /\ batch_backup_file'.pending_content = pending_content'
RecoveryDone == ipc \in {"collections", "constructed"}

\* C29: once the recovery of a starting Indexer has run, there is no backup
\* file, whether there was none, or its entries were flushed, or the flush
\* raised, or the file could not be parsed.
C29_RecoveryRemovesBackup == RecoveryDone => ~batch_backup_file.exists

\* a starting Indexer found a backup file with entries, its flush raised (the
\* entries are still pending in memory), and the file is gone
C29_Witness ==
  /\ ipc = "constructed"
  /\ backup_found.exists /\ backup_found.valid
  /\ pending_metadata = backup_found.pending_metadata /\ pending_metadata # <<>>
  /\ ~batch_backup_file.exists

\* ---- C30 ----
\* an emergency flush is running in the process
InEmergencyFlush == fctx = "emergency" /\ ipc \in {"flush_metadata", "flush_content", "flush_returned", "flush_raised"}

\* C30: every exit path of the process (normal exit, SIGINT, SIGTERM) begins
\* a last flush of the pending batch before the process ends, and a second
\* signal that arrives while that flush is running ends the process: it never
\* begins the flush again, so a process begins at most one emergency flush
C30_OneEmergencyFlush ==
  /\ InEmergencyFlush => eflushes >= 1
  /\ eflushes <= 1

\* ---- C31 ----
AllStopped == \A w \in Workers : wpc[w] = "stopped"

\* worker w takes a task out of the queue in this step
Dequeues(w) == wpc[w] = "get_wait" /\ wpc'[w] = "process"

\* processor.cleanup() of worker w runs in this step
Cleans(w) == w \notin cleaned /\ w \in cleaned'

\* cleanup() runs in the step in which the worker leaves its loop and in no
\* other, so a stopped worker has called it once
CleanupOnLeaving ==
  /\ [][\A w \in Workers : Cleans(w) <=> (wpc[w] # "stopped" /\ wpc'[w] = "stopped")]_vars
  /\ [](\A w \in Workers : wpc[w] = "stopped" <=> w \in cleaned)

\* C31 as stated: once shutdown() has been called every worker eventually
\* leaves its loop, it finishes only a task it already holds (it takes no
\* task out of the queue any more), it waits in at most one dequeue, and on
\* leaving it calls processor.cleanup() exactly once
C31_StopsWithHeldTaskOnly ==
  /\ shutdown_event ~> AllStopped
  /\ [][\A w \in Workers : shutdown_event => ~Dequeues(w)]_vars
  /\ [][\A w \in Workers : shutdown_event /\ wpc'[w] = "get_wait" => wpc[w] = "get_wait"]_vars
  /\ CleanupOnLeaving

\* ---- C32 ----
\* C32: shutdown() leaves the tasks in flight with their workers; a worker
\* that holds a task while the latch is set can always call task_completed,
\* and the call counts the task once, in total_processed or in total_failed
C32_InFlightCompletes ==
  /\ [][~shutdown_event /\ shutdown_event' => wtask' = wtask /\ wpc' = wpc /\ stats' = stats]_vars
  /\ [](\A w \in Workers : shutdown_event /\ wpc[w] = "complete" => ENABLED WorkerComplete(w))
  /\ [][\A w \in Workers : shutdown_event /\ Completes(w) =>
          /\ completions'[wtask[w].id] = completions[wtask[w].id] + 1
          /\ stats'.total_added = stats.total_added
          /\ IF wstatus[w] \in SuccessStatuses
               THEN stats'.total_processed = stats.total_processed + 1 /\ stats'.total_failed = stats.total_failed
               ELSE stats'.total_failed = stats.total_failed + 1 /\ stats'.total_processed = stats.total_processed]_vars

\* the latch is set, one worker has already left its loop and another still
\* holds a processed task that task_completed has not yet been called for
C32_Witness ==
  /\ shutdown_event
  /\ \E w \in Workers : wpc[w] = "stopped"
  /\ \E w \in Workers : wpc[w] = "complete" /\ wtask[w] # NoTask

\* ---- C33 ----
\* the task was refused by the existence check of _index_file: it returned
\* FAILURE without having read the metadata of a file and without a store
\* call that raised
RefusedAsMissing == fl.status = FAILURE /\ fl.metadata = NoMetadata /\ ~fl.raised

\* C33: an Index or Update task that returns HIDDEN, LARGE or SKIPPED, or
\* FAILURE because its path is missing or a directory, made no upsert and no
\* delete: both collections are as they were when the task began
C33_RefusedTaskLeavesStore ==
  (fpc = "done" /\ ftask.task_type \in {INDEX_FILE, UPDATE_FILE}
     /\ (fl.status \in {HIDDEN, LARGE, SKIPPED} \/ RefusedAsMissing))
    => Store = start_store

\* an Update task for a path that is now missing has returned FAILURE while
\* the store still holds the records of the file that was there
C33_Witness ==
  /\ fpc = "done"
  /\ ftask.task_type = UPDATE_FILE
  /\ RefusedAsMissing
  /\ fs[ftask.file_path].kind = "missing"
  /\ MetaOf(Store, ftask.file_path) # NoRecord
  /\ ContentOf(Store, ftask.file_path) # NoRecord

\* ---- C34 ----
\* C34: no task is put into the queue once the shutdown latch is set: in every
\* interleaving of add_task with shutdown() the queue gains a task and the
\* enqueue history grows only while the latch is clear
C34_NoInsertAfterShutdown ==
  [][shutdown_event => (Len(enqLog') = Len(enqLog) /\ Len(queue') <= Len(queue))]_vars

\* ---- C35 ----
\* C35: in every reachable state total_processed + total_failed is at most
\* total_added, so get_progress never reports more completed than added
\* tasks nor a progress_percentage above 100
C35_CompletedAtMostAdded ==
  /\ stats.total_processed + stats.total_failed <= stats.total_added
  /\ GetProgress.total_processed + GetProgress.total_failed <= GetProgress.total_added
  /\ GetProgress.progress_percentage <= 100

\* ---- C36 ----
NoTaskInFlight == \A w \in Workers : cpc[w] = "idle"

\* C36: whenever no task is in flight, a content record is in the store only
\* if the metadata record of the same identity is in the store too, also
\* after Index and Delete tasks for one path ran at the same time on
\* different workers (so that a later Delete task finds the metadata record
\* and removes the content record with it)
C36_ContentImpliesMetadata ==
  NoTaskInFlight =>
    \A p \in Paths : ContentOf(Store, p) # NoRecord => MetaOf(Store, p) # NoRecord

\* ---- C37 ----
\* C37: an Index task returns SKIPPED only if an earlier indexing of the same
\* path with the same modification time returned SUCCESS; an indexing that
\* returned FAILURE never makes a later Index task of the unmodified file
\* return SKIPPED
C37_SkippedOnlyAfterSuccess ==
  (fpc = "done" /\ ftask.task_type \in {INDEX_FILE, UPDATE_FILE} /\ fl.status = SKIPPED)
    => <<fl.path, fl.metadata.modified_at>> \in indexed

\* ---- C38 ----
\* C38: when an Index task for path p has returned SUCCESS the content
\* collection holds a record for the identity of p if and only if the run
\* extracted content: the content record of an earlier version does not
\* survive the indexing of a modified version that yields no content
C38_ContentIffExtracted ==
  (fpc = "done" /\ ftask.task_type \in {INDEX_FILE, UPDATE_FILE} /\ fl.status = SUCCESS)
    => (ContentOf(Store, fl.path) # NoRecord <=> HasContent(fl.content))

\* ---- C39 ----
\* the sum of the five outcome counters of main.processing_stats
CountedOutcomes ==
  processing_stats[SUCCESS] + processing_stats[SKIPPED] + processing_stats[HIDDEN]
    + processing_stats[LARGE] + processing_stats[FAILURE]

\* no worker holds a task between get_task and task_completed
NoWorkerHoldsTask == \A w \in Workers : wpc[w] \notin {"process", "report", "complete"}

\* C39: each task a worker processes increments exactly one of the five outcome
\* counters exactly once; hence, when no worker holds a task, the sum of the
\* five counters equals total_processed + total_failed and the failure counter
\* equals total_failed
C39_OneCounterPerTask ==
  NoWorkerHoldsTask =>
    /\ CountedOutcomes = stats.total_processed + stats.total_failed
    /\ processing_stats[FAILURE] = stats.total_failed

\* ---- C40 ----
\* modify events that have passed an Index task to the queue
Enqueuing == {i \in Modifies : elog[i].tasks = 1}

\* the step records the time of the accepted modify event it appends, for the
\* path of that event and for no other
StampsAccepted ==
  /\ Len(elog') = Len(elog) + 1
  /\ LET e == elog'[Len(elog')] IN
       /\ e.kind = "modified" /\ e.accepted
       /\ DOMAIN last_modified_times' = DOMAIN last_modified_times \cup {e.path}
       /\ last_modified_times'[e.path] = e.time
       /\ \A q \in DOMAIN last_modified_times : q # e.path => last_modified_times'[q] = last_modified_times[q]

\* C40: any two Index tasks enqueued by modify events for the same path stem
\* from events at least 2 seconds apart, and the stored debounce timestamp of a
\* path changes only when a modify event for that path is accepted: create,
\* move and delete events and discarded modify events never change it
C40_EnqueuedApartAndStampOnAccept ==
  /\ [](\A i \in Enqueuing : \A j \in Enqueuing :
          (i < j /\ elog[i].path = elog[j].path) => elog[j].time - elog[i].time >= DebounceTime)
  /\ [][last_modified_times' # last_modified_times => StampsAccepted]_vars

\* a modify event for a file was accepted and enqueued its Index task, a
\* create event for the same file followed and left the timestamp alone, and
\* a second modify event, two seconds after the first, was accepted and
\* enqueued a second Index task
C40_Witness ==
  /\ Len(elog) = 3 /\ hpc = "idle"
  /\ elog[1].kind = "modified" /\ elog[2].kind = "created" /\ elog[3].kind = "modified"
  /\ \A i \in 1..3 : elog[i].path = PathA /\ elog[i].tasks = 1
  /\ elog[3].time - elog[1].time = DebounceTime
  /\ last_modified_times[PathA] = elog[3].time

====
